---- MODULE Spec2Model ----
(***************************************************************************)
(* Multi-chain wallet front-end: three wallet connector components (EVM /  *)
(* MetaMask, SVM / Phantom, MVM / Petra), the aggregation view that merges *)
(* their token lists, and the transfer dispatcher of utils/wallet.ts.      *)
(*                                                                         *)
(* The connectors are React function components.  A handler reads the      *)
(* state values of the render that created it: the extension listeners    *)
(* and the mount-time connection check are created by the first render     *)
(* (useEffect with an empty dependency list), the button handlers by the   *)
(* render that is on screen when the button is clicked.  Every awaited     *)
(* extension / RPC call is a suspension point and is resolved by its own   *)
(* action, with the outcome chosen by the environment.                     *)
(***************************************************************************)
EXTENDS Integers, Sequences, FiniteSets, Bags, TLC

Chains == {"evm", "svm", "mvm"}
\* The account an extension answers a connection check or a connect request
\* with, and the account an account-change event switches to.
Accounts == {"acc1"}
ChangedAccounts == {"acc2"}
Null == "null"

\* Bounds of the model.
MaxInFlight == 2
MaxCalls == 1
MaxEvents == 2

VARIABLES
    present,            \* the extension object exists in window
    mounted,            \* the connector's mount effect has run
    isConnected,        \* useState: isConnected
    address,            \* useState: address (Null or an account)
    isInstalled,        \* useState: isInstalled
    fetchingBalances,   \* useState: fetchingBalances
    chk,                \* checkConnectionStatus: the await it is suspended at
    conns,              \* connectWallet calls suspended at an await (bag)
    discs,              \* disconnectWallet calls suspended at an await (count)
    fetches,            \* fetchTokenBalances calls suspended at an await (bag)
    allTokens,          \* Index: useState allTokens
    deliveredBy,        \* for each entry of allTokens, the connector that delivered it
    ev,                 \* what the last step did (notifications, requests, ...)
    events,             \* number of user / extension stimuli so far
    transfer,           \* utils/wallet: the transferTokens call and what it did
    dialog              \* Index: the transfer dialog and its handleSubmitTransfer call

adapterVars == <<present, mounted, isConnected, address, isInstalled,
                 fetchingBalances, chk, conns, discs, fetches>>
viewVars == <<allTokens, deliveredBy>>
vars == <<adapterVars, viewVars, ev, events, transfer, dialog>>

----------------------------------------------------------------------------
\* Token records (types/wallet Token)

Token(id, symbol, name, balance, decimals, addr, chain) ==
    [id |-> id, symbol |-> symbol, name |-> name, balance |-> balance,
     decimals |-> decimals, address |-> addr, chain |-> chain,
     logoURI |-> "", priceUSD |-> "0"]

\* Decimal printing.  TLC integers are 32 bit, so an on-chain amount is held
\* in a unit that fits: EVM balances in gwei (10^9 wei), Solana balances in
\* lamports below 2^31, Aptos coin values in base units below 2^31.
DigitChars == <<"0", "1", "2", "3", "4", "5", "6", "7", "8", "9">>

Digit(d) == DigitChars[d + 1]

RECURSIVE NatToStr(_)
NatToStr(n) == IF n < 10 THEN Digit(n) ELSE NatToStr(n \div 10) \o Digit(n % 10)

RECURSIVE Pow10(_)
Pow10(d) == IF d = 0 THEN 1 ELSE 10 * Pow10(d - 1)

RECURSIVE PadDigits(_, _)
PadDigits(n, d) == IF d = 0 THEN "" ELSE PadDigits(n \div 10, d - 1) \o Digit(n % 10)

\* The d fractional digits of n / 10^d with the trailing zeros removed.
RECURSIVE FracDigits(_, _)
FracDigits(n, d) ==
    IF d = 0 THEN ""
    ELSE IF n % 10 = 0 THEN FracDigits(n \div 10, d - 1) ELSE PadDigits(n, d)

\* ethers.formatEther on a balance of `gwei` * 10^9 wei: always one
\* fractional digit at least ("2.0").
formatEther(gwei) ==
    LET frac == FracDigits(gwei % Pow10(9), 9)
    IN  NatToStr(gwei \div Pow10(9)) \o "." \o (IF frac = "" THEN "0" ELSE frac)

\* JavaScript (raw / 10^d).toString() for a quotient of at least 10^-6: no
\* fractional part is printed for an integer.
NumberToString(raw, d) ==
    LET frac == FracDigits(raw % Pow10(d), d)
    IN  NatToStr(raw \div Pow10(d)) \o (IF frac = "" THEN "" ELSE "." \o frac)

LAMPORTS_PER_SOL == 1000000000

\* Values the chains' RPC endpoints answer with.
ChainIds == {"0xaef3", "0x1"}
GweiBalances == {1500000000}
LamportBalances == {1500000000}

\* The RPC endpoint the EVM fetcher reads the balance from.
rpcUrl(chainId) ==
    IF chainId = "0xaef3" THEN "https://alfajores-forno.celo-testnet.org"
    ELSE "https://eth-mainnet.g.alchemy.com/v2/demo"

----------------------------------------------------------------------------
\* Tokens the three fetchers build

EVM_nativeToken(chainId, gwei) ==
    Token("native",
          IF chainId = "0xaef3" THEN "CELO" ELSE "ETH",
          IF chainId = "0xaef3" THEN "Celo" ELSE "Ethereum",
          formatEther(gwei), 18, "native", "evm")

EVM_emptyToken ==
    Token("error", "ERR", "Error fetching tokens", "0", 18, "", "ethereum")

SVM_solToken(lamports) ==
    Token("SOL", "SOL", "Solana", NumberToString(lamports, 9), 9, "native", "svm")

SVM_emptyToken ==
    Token("error", "ERR", "Error fetching tokens", "0", 9, "", "svm")

MVM_emptyToken ==
    Token("error", "ERR", "Error fetching tokens", "0", 8, "", "mvm")

\* Account resources of the Aptos node.  A resource is a coin store when its
\* type starts with "0x1::coin::CoinStore<"; coinType is the text between
\* the angle brackets.
AptosCoin == "0x1::aptos_coin::AptosCoin"
UsdCoin == "0xa::usd::USD"
AccountResource == [isCoinStore |-> FALSE, coinType |-> "", value |-> 0]
CoinStore(coinType, value) == [isCoinStore |-> TRUE, coinType |-> coinType, value |-> value]
ResourceLists ==
    { <<AccountResource>>,
      <<AccountResource, CoinStore(AptosCoin, 250000000), CoinStore(UsdCoin, 1500000)>> }

\* CoinInfo metadata as stored on chain; `missing` names the fields the
\* resource does not carry (undefined in JavaScript).
CoinInfo(coinType) ==
    IF coinType = AptosCoin
    THEN [symbol |-> "APT", name |-> "Aptos Coin", decimals |-> 8, missing |-> {}]
    ELSE [symbol |-> "USD", name |-> "", decimals |-> 6, missing |-> {"name"}]

\* coinInfo.field ?? fallback
Coalesce(coinInfo, field, fallback) ==
    IF field \in coinInfo.missing THEN fallback ELSE coinInfo[field]

\* One element of the Promise.all map; `threw` says the metadata lookup threw.
MVM_token(resource, threw) ==
    LET tokenType == resource.coinType
        coinInfo == CoinInfo(tokenType)
        symbol == IF threw THEN "UNKNOWN" ELSE Coalesce(coinInfo, "symbol", "UNKNOWN")
        name == IF threw THEN "Unknown Token" ELSE Coalesce(coinInfo, "name", "Unknown Token")
        decimals == IF threw THEN 8 ELSE Coalesce(coinInfo, "decimals", 8)
    IN  Token(tokenType, symbol, name, NumberToString(resource.value, decimals),
              decimals, tokenType, "mvm")

coinStores(resources) == SelectSeq(resources, LAMBDA r : r.isCoinStore)

\* Mutant: a metadata lookup that throws is not caught per coin store, so the
\* whole fetch ends in the outer catch block.
MVM_tokenBalances_abort(stores, failed) ==
    IF failed = {} THEN [i \in 1..Len(stores) |-> MVM_token(stores[i], FALSE)]
    ELSE <<MVM_emptyToken>>

\* MVM_token of every coin store the node answers with (MVM_token is a
\* function of the store and of whether its lookup threw).
MVM_tokens ==
    [resource \in UNION {{l[i] : i \in 1..Len(l)} : l \in {coinStores(r) : r \in ResourceLists}},
     threw \in BOOLEAN |-> MVM_token(resource, threw)]

MVM_tokenBalances(stores, failed) ==
    [i \in 1..Len(stores) |-> MVM_tokens[stores[i], i \in failed]]

----------------------------------------------------------------------------
\* Aggregation view (Index)

\* Mutant: the delivery replaces the whole list (no chain filter).
handleSetTokenBalances_replaceAll(prev, tokens, chain) == tokens

handleSetTokenBalances(prev, tokens, chain) ==
    LET filtered == SelectSeq(prev, LAMBDA token : token.chain # chain)
    IN  filtered \o tokens

----------------------------------------------------------------------------
\* State shared by the three connectors

\* The values the first render's closures hold (the useState initial values):
\* the listeners registered at mount and the mount-time connection check read
\* these, whatever the component's state is when they run.
MountClosure ==
    [isConnected |-> FALSE, address |-> Null, isInstalled |-> FALSE,
     fetchingBalances |-> FALSE]

\* The record of a step: the handler that ran (op) in connector `chain`, the
\* await it resumed from (at, "" for a handler's start) with the answer it
\* got ("throw" for a rejection), and what the step did: notifications,
\* onConnectChange calls, token lists handed to setTokenBalances, extension
\* and RPC requests issued, install page opened, fetches started (their
\* accounts) and fetchTokenBalances calls that returned at the guard.
NoEvent ==
    [op |-> "init", chain |-> "", at |-> "", answer |-> "", toasts |-> <<>>,
     onConnectChange |-> 0, delivered |-> <<>>, requests |-> <<>>,
     opened |-> FALSE, started |-> <<>>, dropped |-> 0, stores |-> <<>>,
     failed |-> {}]

Event(op, chain, at, answer) ==
    [NoEvent EXCEPT !.op = op, !.chain = chain, !.at = at, !.answer = answer]

\* A JavaScript number: NaN, or num / 10^scale.
NaN == [nan |-> TRUE, num |-> 0, scale |-> 0]

Number(n) == [nan |-> FALSE, num |-> n, scale |-> 0]

\* utils/wallet: no transferTokens call has been made.
NoTransfer ==
    [pc |-> "idle", token |-> Token("", "", "", "", 0, "", ""), toAddress |-> "",
     amount |-> <<>>, tokenAddress |-> "", routines |-> <<>>, calls |-> <<>>,
     sent |-> <<>>, toasts |-> <<>>, returned |-> "none",
     currentBalance |-> NaN, transferAmount |-> NaN, confirmation |-> "none",
     network |-> <<>>, chainId |-> ""]

\* Index: the dialog state after construction (selectedToken null, the two
\* fields empty, the dialog closed); `op` is the Index handler that ran
\* last, `toasts` what it notified, and pc says whether a
\* handleSubmitTransfer call is suspended at its await.
NoDialog ==
    [selectedToken |-> NoTransfer.token, toAddress |-> "", amount |-> <<>>,
     isTransferDialogOpen |-> FALSE, pc |-> "idle", op |-> "", toasts |-> <<>>]

InitWith(installed) ==
    /\ present \in installed
    /\ mounted = [c \in Chains |-> FALSE]
    /\ isConnected = [c \in Chains |-> FALSE]
    /\ address = [c \in Chains |-> Null]
    /\ isInstalled = [c \in Chains |-> FALSE]
    /\ fetchingBalances = [c \in Chains |-> FALSE]
    /\ chk = [c \in Chains |-> "none"]
    /\ conns = [c \in Chains |-> EmptyBag]
    /\ discs = [c \in Chains |-> 0]
    /\ fetches = [c \in Chains |-> EmptyBag]
    /\ allTokens = <<>>
    /\ deliveredBy = <<>>
    /\ ev = NoEvent
    /\ events = 0
    /\ transfer = NoTransfer
    /\ dialog = NoDialog

OneBag(e) == SetToBag({e})

\* The listeners of chain c are registered (setupEventListeners ran).
Listening(c) == mounted[c] /\ present[c]

\* A user or extension stimulus is still within the bound: MaxEvents of them
\* with at most one extension installed, one fewer with more.
Stimulus ==
    IF Cardinality({c \in Chains : present[c]}) > 1 THEN events < MaxEvents - 1
    ELSE events < MaxEvents

\* Connector c has a call suspended at an await.
Busy(c) ==
    \/ chk[c] # "none"
    \/ conns[c] # EmptyBag
    \/ discs[c] > 0
    \/ fetches[c] # EmptyBag

\* Connector c may suspend a call at an await.  The connectors share no
\* state but allTokens, which each changes only in its own chain's entries.
\* With the three extensions installed the model lets the connectors take
\* turns: a connector starts asynchronous work only while no other connector
\* has a call suspended.  With two installed their calls interleave freely.
\* (With at most one installed only one connector ever has a call.)
MayStart(c) ==
    (\A d \in Chains : present[d]) => \A d \in Chains \ {c} : ~Busy(d)

FirstAwait(c) ==
    CASE c = "evm" -> "eth_chainId"
      [] c = "svm" -> "getBalance"
      [] c = "mvm" -> "getAccountResources"

Fetch(acct, stage, chainId, stores) ==
    [acct |-> acct, stage |-> stage, chainId |-> chainId, stores |-> stores]

\* fetchTokenBalances up to its first await.  closureFetching is the
\* fetchingBalances value of the render that created the function called.
fetchTokenBalances(c, accountAddress, closureFetching) ==
    IF closureFetching
    THEN UNCHANGED <<fetchingBalances, fetches>>
    ELSE /\ BagCardinality(fetches[c]) < MaxInFlight
         /\ MayStart(c)
         /\ fetchingBalances' = [fetchingBalances EXCEPT ![c] = TRUE]
         /\ fetches' = [fetches EXCEPT
                ![c] = @ (+) OneBag(Fetch(accountAddress, FirstAwait(c), "", <<>>))]

\* What a fetchTokenBalances call adds to the step's record.
FetchEvent(e, c, accountAddress, closureFetching) ==
    IF closureFetching
    THEN [e EXCEPT !.dropped = @ + 1]
    ELSE [e EXCEPT !.started = Append(@, accountAddress),
                   !.requests = Append(@, FirstAwait(c))]

\* The connectors that delivered the entries handleSetTokenBalances keeps.
RECURSIVE keptBy(_, _, _)
keptBy(prev, by, chain) ==
    IF prev = <<>> THEN <<>>
    ELSE (IF Head(prev).chain # chain THEN <<Head(by)>> ELSE <<>>)
         \o keptBy(Tail(prev), Tail(by), chain)

\* The setTokenBalances prop of connector c:
\* (tokens) => handleSetTokenBalances(tokens, c).
setTokenBalances(c, tokens) ==
    /\ allTokens' = handleSetTokenBalances(allTokens, tokens, c)
    /\ deliveredBy' = keptBy(allTokens, deliveredBy, c) \o [i \in 1..Len(tokens) |-> c]

\* The synthetic token of the catch block of fetchTokenBalances.
emptyToken(c) ==
    CASE c = "evm" -> EVM_emptyToken
      [] c = "svm" -> SVM_emptyToken
      [] c = "mvm" -> MVM_emptyToken

\* Mutant: the catch block delivers an empty list.
fetchFailed_empty(c) == <<>>

\* What the catch block of fetchTokenBalances hands to setTokenBalances.
fetchFailed(c) == <<emptyToken(c)>>

\* Mutant: a fetch that ends after a disconnect delivers nothing.
fetchDeliver_ifConnected(c, f, tokens) ==
    /\ IF isConnected[c] THEN setTokenBalances(c, tokens) ELSE UNCHANGED viewVars
    /\ fetchingBalances' = [fetchingBalances EXCEPT ![c] = FALSE]
    /\ fetches' = [fetches EXCEPT ![c] = @ (-) OneBag(f)]

\* Mutant: the flag is reset at the end of the try block, not in finally.
fetchDeliver_noFinally(c, f, tokens) ==
    /\ setTokenBalances(c, tokens)
    /\ fetchingBalances' = [fetchingBalances EXCEPT
                              ![c] = IF tokens = fetchFailed(c) THEN @ ELSE FALSE]
    /\ fetches' = [fetches EXCEPT ![c] = @ (-) OneBag(f)]

\* The end of a fetchTokenBalances call f: setTokenBalances(tokens), then
\* the finally block's setFetchingBalances(false).
fetchDeliver(c, f, tokens) ==
    /\ setTokenBalances(c, tokens)
    /\ fetchingBalances' = [fetchingBalances EXCEPT ![c] = FALSE]
    /\ fetches' = [fetches EXCEPT ![c] = @ (-) OneBag(f)]

\* Mutant: handleDisconnect leaves the connector's tokens in the list.
handleDisconnect_keepTokens(c) ==
    /\ address' = [address EXCEPT ![c] = Null]
    /\ isConnected' = [isConnected EXCEPT ![c] = FALSE]
    /\ UNCHANGED viewVars

\* handleDisconnect of the three connectors (the same statements in each).
handleDisconnect(c) ==
    /\ address' = [address EXCEPT ![c] = Null]
    /\ isConnected' = [isConnected EXCEPT ![c] = FALSE]
    /\ setTokenBalances(c, <<>>)

DisconnectEvent(e) ==
    [e EXCEPT !.onConnectChange = @ + 1,
              !.delivered = Append(@, <<>>),
              !.toasts = Append(@, "Disconnected")]

\* Mutant: the connected flag is set but the address is not stored.
setConnected_noAddress(c, a) ==
    /\ address' = [address EXCEPT ![c] = Null]
    /\ isConnected' = [isConnected EXCEPT ![c] = TRUE]

\* setAddress(a); setIsConnected(true)
setConnected(c, a) ==
    /\ address' = [address EXCEPT ![c] = a]
    /\ isConnected' = [isConnected EXCEPT ![c] = TRUE]

\* Mutant: the in-flight flag is one flag shared by the three connectors.
Call_shared(stage, closureFetching) ==
    [stage |-> stage, fetchingBalances |-> \E d \in Chains : fetchingBalances[d]]

\* A pending connectWallet call: the await it is suspended at and the
\* fetchingBalances value of the render whose button was clicked.
Call(stage, closureFetching) == [stage |-> stage, fetchingBalances |-> closureFetching]

\* Mutant: the install page is opened and a failure is reported as well.
openInstallPage_notify(c) ==
    /\ ev' = [Event("connectWallet", c, "", "")
                 EXCEPT !.opened = TRUE, !.toasts = <<"Connection Failed">>]
    /\ UNCHANGED conns

\* connectWallet with isInstalled false: window.open(install page); return.
openInstallPage(c) ==
    /\ ev' = [Event("connectWallet", c, "", "") EXCEPT !.opened = TRUE]
    /\ UNCHANGED conns

\* The three steps connectWallet can end with once the extension answered.
\* Success: setAddress, setIsConnected(true), onConnectChange(), the
\* "Connected" notification, then fetchTokenBalances of the clicked render.
connectSucceeded(c, at, account, call) ==
    /\ setConnected(c, account)
    /\ fetchTokenBalances(c, account, call.fetchingBalances)
    /\ ev' = FetchEvent([Event("connectWallet", c, at, account)
                            EXCEPT !.onConnectChange = 1,
                                   !.toasts = <<"Connected">>],
                        c, account, call.fetchingBalances)

\* The extension answered without an account: nothing is done.
connectNoAccount(c, at) ==
    /\ ev' = Event("connectWallet", c, at, Null)
    /\ UNCHANGED <<address, isConnected, fetchingBalances, fetches>>

\* Mutant: the catch block of connectWallet reports and asks again.
connectFailed_retry(c, at) ==
    /\ ev' = [Event("connectWallet", c, at, "throw")
                 EXCEPT !.toasts = <<"Connection Failed">>, !.requests = <<at>>]
    /\ UNCHANGED <<address, isConnected, fetchingBalances, fetches>>

\* Mutant: the catch block of connectWallet only logs.
connectFailed_silent(c, at) ==
    /\ ev' = Event("connectWallet", c, at, "throw")
    /\ UNCHANGED <<address, isConnected, fetchingBalances, fetches>>

\* The catch block of connectWallet.
connectFailed(c, at) ==
    /\ ev' = [Event("connectWallet", c, at, "throw")
                 EXCEPT !.toasts = <<"Connection Failed">>]
    /\ UNCHANGED <<address, isConnected, fetchingBalances, fetches>>

\* Mutant: the connection check connects but fetches nothing.
checkSucceeded_noFetch(c, at, account) ==
    /\ setConnected(c, account)
    /\ ev' = [Event("checkConnectionStatus", c, at, account)
                 EXCEPT !.onConnectChange = 1]
    /\ UNCHANGED <<fetchingBalances, fetches>>

\* checkConnectionStatus found the extension connected with `account`.
checkSucceeded(c, at, account) ==
    /\ setConnected(c, account)
    /\ fetchTokenBalances(c, account, MountClosure.fetchingBalances)
    /\ ev' = FetchEvent([Event("checkConnectionStatus", c, at, account)
                            EXCEPT !.onConnectChange = 1],
                        c, account, MountClosure.fetchingBalances)

\* Mutant: the listener stores the new account without fetching for it.
accountChanged_noFetch(c, op, newAccount) ==
    IF newAccount # Null
    THEN /\ address' = [address EXCEPT ![c] = newAccount]
         /\ ev' = Event(op, c, "", newAccount)
         /\ UNCHANGED <<isConnected, viewVars, fetchingBalances, fetches>>
    ELSE /\ handleDisconnect(c)
         /\ ev' = DisconnectEvent(Event(op, c, "", Null))
         /\ UNCHANGED <<fetchingBalances, fetches>>

\* An account-change listener registered at mount, called with newAccount
\* (Null: no account).
accountChanged(c, op, newAccount) ==
    IF newAccount # Null
    THEN /\ address' = [address EXCEPT ![c] = newAccount]
         /\ fetchTokenBalances(c, newAccount, MountClosure.fetchingBalances)
         /\ ev' = FetchEvent(Event(op, c, "", newAccount), c, newAccount,
                             MountClosure.fetchingBalances)
         /\ UNCHANGED <<isConnected, viewVars>>
    ELSE /\ handleDisconnect(c)
         /\ ev' = DisconnectEvent(Event(op, c, "", Null))
         /\ UNCHANGED <<fetchingBalances, fetches>>

\* A chain / network change listener registered at mount: it reads the
\* address of the first render.
networkChanged(c, op) ==
    IF MountClosure.address # Null
    THEN /\ fetchTokenBalances(c, MountClosure.address, MountClosure.fetchingBalances)
         /\ ev' = FetchEvent(Event(op, c, "", ""), c, MountClosure.address,
                             MountClosure.fetchingBalances)
    ELSE /\ UNCHANGED <<fetchingBalances, fetches>>
         /\ ev' = Event(op, c, "", "")

----------------------------------------------------------------------------
\* EVMWalletConnector (MetaMask)

\* useEffect(..., []): checkMetaMask, setupEventListeners and
\* checkConnectionStatus up to its await of eth_accounts.
EVM_useEffect ==
    /\ UNCHANGED <<transfer, dialog>>
    /\ /\ ~mounted["evm"]
       /\ mounted' = [mounted EXCEPT !["evm"] = TRUE]
       /\ isInstalled' = [isInstalled EXCEPT !["evm"] = present["evm"]]
       /\ IF present["evm"]
          THEN /\ MayStart("evm")
               /\ chk' = [chk EXCEPT !["evm"] = "eth_accounts"]
               /\ ev' = [Event("useEffect", "evm", "", "")
                            EXCEPT !.requests = <<"eth_accounts">>]
          ELSE /\ UNCHANGED chk
               /\ ev' = Event("useEffect", "evm", "", "")
       /\ UNCHANGED <<present, isConnected, address, fetchingBalances, conns, discs,
                      fetches, viewVars, events>>

\* checkConnectionStatus after eth_accounts answered: r is accounts[0], Null
\* for an empty list, "throw" for a rejected request.
EVM_checkConnectionStatus ==
    /\ UNCHANGED <<transfer, dialog>>
    /\ /\ chk["evm"] = "eth_accounts"
       /\ chk' = [chk EXCEPT !["evm"] = "none"]
       /\ \E r \in Accounts \cup {Null, "throw"} :
            IF r \in Accounts
            THEN checkSucceeded("evm", "eth_accounts", r)
            ELSE /\ UNCHANGED <<address, isConnected, fetchingBalances, fetches>>
                 /\ ev' = Event("checkConnectionStatus", "evm", "eth_accounts", r)
       /\ UNCHANGED <<present, mounted, isInstalled, conns, discs, viewVars, events>>

\* The accountsChanged listener; a is accounts[0], Null for an empty list.
EVM_handleAccountsChanged ==
    /\ UNCHANGED <<transfer, dialog>>
    /\ /\ Listening("evm") /\ Stimulus
       /\ events' = events + 1
       /\ \E a \in ChangedAccounts \cup {Null} :
            accountChanged("evm", "handleAccountsChanged", a)
       /\ UNCHANGED <<present, mounted, isInstalled, chk, conns, discs>>

\* The chainChanged listener.
EVM_handleChainChanged ==
    /\ UNCHANGED <<transfer, dialog>>
    /\ /\ Listening("evm") /\ Stimulus
       /\ events' = events + 1
       /\ networkChanged("evm", "handleChainChanged")
       /\ UNCHANGED <<present, mounted, isConnected, address, isInstalled, chk,
                      conns, discs, viewVars>>

\* fetchTokenBalances after eth_chainId answered.
EVM_fetch_chainId ==
    /\ UNCHANGED <<transfer, dialog>>
    /\ \E f \in BagToSet(fetches["evm"]) :
         /\ f.stage = "eth_chainId"
         /\ \E r \in ChainIds \cup {"throw"} :
              IF r # "throw"
              THEN /\ fetches' = [fetches EXCEPT !["evm"] =
                         (@ (-) OneBag(f)) (+) OneBag([f EXCEPT !.stage = "getBalance",
                                                               !.chainId = r])]
                   /\ ev' = [Event("fetchTokenBalances", "evm", "eth_chainId", r)
                                EXCEPT !.requests = <<"getBalance">>]
                   /\ UNCHANGED <<viewVars, fetchingBalances>>
              ELSE /\ fetchDeliver("evm", f, fetchFailed("evm"))
                   /\ ev' = [Event("fetchTokenBalances", "evm", "eth_chainId", r)
                                EXCEPT !.delivered = <<fetchFailed("evm")>>]
         /\ UNCHANGED <<present, mounted, isConnected, address, isInstalled, chk,
                        conns, discs, events>>

\* fetchTokenBalances after provider.getBalance answered (or threw).
EVM_fetch_getBalance ==
    /\ UNCHANGED <<transfer, dialog>>
    /\ \E f \in BagToSet(fetches["evm"]) :
         /\ f.stage = "getBalance"
         /\ \E threw \in BOOLEAN, nativeBalance \in GweiBalances :
              LET tokens == IF threw THEN fetchFailed("evm")
                            ELSE <<EVM_nativeToken(f.chainId, nativeBalance)>>
              IN  /\ fetchDeliver("evm", f, tokens)
                  /\ ev' = [Event("fetchTokenBalances", "evm", "getBalance",
                                  IF threw THEN "throw" ELSE "ok")
                               EXCEPT !.delivered = <<tokens>>]
         /\ UNCHANGED <<present, mounted, isConnected, address, isInstalled, chk,
                        conns, discs, events>>

\* The Disconnect button (shown while isConnected): handleDisconnect.
EVM_handleDisconnect ==
    /\ UNCHANGED <<transfer, dialog>>
    /\ /\ mounted["evm"] /\ isConnected["evm"] /\ Stimulus
       /\ events' = events + 1
       /\ handleDisconnect("evm")
       /\ ev' = DisconnectEvent(Event("handleDisconnect", "evm", "", ""))
       /\ UNCHANGED <<present, mounted, isInstalled, fetchingBalances, chk, conns,
                      discs, fetches>>

\* The Connect button (shown while not isConnected), up to the await of
\* eth_requestAccounts.
EVM_connectWallet ==
    /\ UNCHANGED <<transfer, dialog>>
    /\ /\ mounted["evm"] /\ ~isConnected["evm"] /\ Stimulus
       /\ events' = events + 1
       /\ IF ~isInstalled["evm"]
          THEN openInstallPage("evm")
          ELSE /\ BagCardinality(conns["evm"]) < MaxCalls /\ MayStart("evm")
               /\ conns' = [conns EXCEPT !["evm"] =
                      @ (+) OneBag(Call("eth_requestAccounts", fetchingBalances["evm"]))]
               /\ ev' = [Event("connectWallet", "evm", "", "")
                            EXCEPT !.requests = <<"eth_requestAccounts">>]
       /\ UNCHANGED <<present, mounted, isConnected, address, isInstalled,
                      fetchingBalances, chk, discs, fetches, viewVars>>

\* connectWallet after eth_requestAccounts answered: r is accounts[0], Null
\* for an empty list, "throw" for a rejected request.
EVM_connectWallet_resume ==
    /\ UNCHANGED <<transfer, dialog>>
    /\ \E call \in BagToSet(conns["evm"]) :
         /\ conns' = [conns EXCEPT !["evm"] = @ (-) OneBag(call)]
         /\ \E r \in Accounts \cup {Null, "throw"} :
              CASE r \in Accounts -> connectSucceeded("evm", "eth_requestAccounts", r, call)
                [] r = Null -> connectNoAccount("evm", "eth_requestAccounts")
                [] r = "throw" -> connectFailed("evm", "eth_requestAccounts")
         /\ UNCHANGED <<present, mounted, isInstalled, chk, discs, viewVars, events>>

EVM_Next ==
    \/ EVM_useEffect
    \/ EVM_checkConnectionStatus
    \/ EVM_handleAccountsChanged
    \/ EVM_handleChainChanged
    \/ EVM_fetch_chainId
    \/ EVM_fetch_getBalance
    \/ EVM_handleDisconnect
    \/ EVM_connectWallet
    \/ EVM_connectWallet_resume

----------------------------------------------------------------------------
\* SVMWalletConnector (Phantom)

\* useEffect(..., []): checkPhantom, setupEventListeners and
\* checkConnectionStatus, which has no await: publicKey is phantom.publicKey
\* when phantom.isConnected, else Null.
SVM_useEffect ==
    /\ UNCHANGED <<transfer, dialog>>
    /\ /\ ~mounted["svm"]
       /\ mounted' = [mounted EXCEPT !["svm"] = TRUE]
       /\ isInstalled' = [isInstalled EXCEPT !["svm"] = present["svm"]]
       /\ \E publicKey \in Accounts \cup {Null} :
            IF present["svm"] /\ publicKey # Null
            THEN checkSucceeded("svm", "", publicKey)
            ELSE /\ UNCHANGED <<address, isConnected, fetchingBalances, fetches>>
                 /\ ev' = Event("useEffect", "svm", "", "")
       /\ UNCHANGED <<present, chk, conns, discs, viewVars, events>>

\* The accountChanged listener; publicKey is Null when the extension
\* reports no account.
SVM_handleAccountChanged ==
    /\ UNCHANGED <<transfer, dialog>>
    /\ /\ Listening("svm") /\ Stimulus
       /\ events' = events + 1
       /\ \E publicKey \in ChangedAccounts \cup {Null} :
            accountChanged("svm", "handleAccountChanged", publicKey)
       /\ UNCHANGED <<present, mounted, isInstalled, chk, conns, discs>>

\* The extension's disconnect event: handleDisconnect is its listener.
SVM_handleDisconnect ==
    /\ UNCHANGED <<transfer, dialog>>
    /\ /\ Listening("svm") /\ Stimulus
       /\ events' = events + 1
       /\ handleDisconnect("svm")
       /\ ev' = DisconnectEvent(Event("handleDisconnect", "svm", "", ""))
       /\ UNCHANGED <<present, mounted, isInstalled, fetchingBalances, chk, conns,
                      discs, fetches>>

\* fetchTokenBalances after connection.getBalance answered (or threw).
SVM_fetch_getBalance ==
    /\ UNCHANGED <<transfer, dialog>>
    /\ \E f \in BagToSet(fetches["svm"]) :
         /\ f.stage = "getBalance"
         /\ \E threw \in BOOLEAN, balance \in LamportBalances :
              LET tokens == IF threw THEN fetchFailed("svm")
                            ELSE <<SVM_solToken(balance)>>
              IN  /\ fetchDeliver("svm", f, tokens)
                  /\ ev' = [Event("fetchTokenBalances", "svm", "getBalance",
                                  IF threw THEN "throw" ELSE "ok")
                               EXCEPT !.delivered = <<tokens>>]
         /\ UNCHANGED <<present, mounted, isConnected, address, isInstalled, chk,
                        conns, discs, events>>

\* The Connect button of the SVM and MVM connectors, up to the await of the
\* extension's connect().
connectWallet(c) ==
    /\ UNCHANGED <<transfer, dialog>>
    /\ /\ mounted[c] /\ ~isConnected[c] /\ Stimulus
       /\ events' = events + 1
       /\ IF ~isInstalled[c]
          THEN openInstallPage(c)
          ELSE IF ~present[c]
          THEN \* the extension object is gone: throw, caught by the catch block
               /\ ev' = [Event("connectWallet", c, "", "throw")
                            EXCEPT !.toasts = <<"Connection Failed">>]
               /\ UNCHANGED conns
          ELSE /\ BagCardinality(conns[c]) < MaxCalls /\ MayStart(c)
               /\ conns' = [conns EXCEPT ![c] =
                      @ (+) OneBag(Call("connect", fetchingBalances[c]))]
               /\ ev' = [Event("connectWallet", c, "", "") EXCEPT !.requests = <<"connect">>]
       /\ UNCHANGED <<present, mounted, isConnected, address, isInstalled,
                      fetchingBalances, chk, discs, fetches, viewVars>>

SVM_connectWallet == connectWallet("svm")

\* connectWallet after phantom.connect() answered with response.publicKey
\* (or threw).
SVM_connectWallet_resume ==
    /\ UNCHANGED <<transfer, dialog>>
    /\ \E call \in BagToSet(conns["svm"]) :
         /\ conns' = [conns EXCEPT !["svm"] = @ (-) OneBag(call)]
         /\ \E r \in Accounts \cup {"throw"} :
              IF r # "throw"
              THEN connectSucceeded("svm", "connect", r, call)
              ELSE connectFailed("svm", "connect")
         /\ UNCHANGED <<present, mounted, isInstalled, chk, discs, viewVars, events>>

\* The Disconnect button of the SVM and MVM connectors (shown while
\* isConnected), up to the await of the extension's disconnect().
disconnectWallet(c) ==
    /\ UNCHANGED <<transfer, dialog>>
    /\ /\ mounted[c] /\ isConnected[c] /\ Stimulus
       /\ events' = events + 1
       /\ IF present[c]
          THEN /\ discs[c] < MaxCalls /\ MayStart(c)
               /\ discs' = [discs EXCEPT ![c] = @ + 1]
               /\ ev' = [Event("disconnectWallet", c, "", "")
                            EXCEPT !.requests = <<"disconnect">>]
               /\ UNCHANGED <<address, isConnected, viewVars>>
          ELSE /\ handleDisconnect(c)
               /\ ev' = DisconnectEvent(Event("disconnectWallet", c, "", ""))
               /\ UNCHANGED discs
       /\ UNCHANGED <<present, mounted, isInstalled, fetchingBalances, chk, conns,
                      fetches>>

\* disconnectWallet after the extension's disconnect() answered or threw:
\* the finally block runs handleDisconnect in both cases.
disconnectWallet_resume(c) ==
    /\ UNCHANGED <<transfer, dialog>>
    /\ /\ discs[c] > 0
       /\ discs' = [discs EXCEPT ![c] = @ - 1]
       /\ handleDisconnect(c)
       /\ \E threw \in BOOLEAN :
            ev' = DisconnectEvent(Event("disconnectWallet", c, "disconnect",
                                        IF threw THEN "throw" ELSE "ok"))
       /\ UNCHANGED <<present, mounted, isInstalled, fetchingBalances, chk, conns,
                      fetches, events>>

SVM_disconnectWallet == disconnectWallet("svm")

SVM_disconnectWallet_resume == disconnectWallet_resume("svm")

SVM_Next ==
    \/ SVM_useEffect
    \/ SVM_handleAccountChanged
    \/ SVM_handleDisconnect
    \/ SVM_fetch_getBalance
    \/ SVM_connectWallet
    \/ SVM_connectWallet_resume
    \/ SVM_disconnectWallet
    \/ SVM_disconnectWallet_resume

----------------------------------------------------------------------------
\* MVMWalletConnector (Petra)

\* useEffect(..., []): checkPetra, setupEventListeners and
\* checkConnectionStatus up to its await of petra.isConnected().
MVM_useEffect ==
    /\ UNCHANGED <<transfer, dialog>>
    /\ /\ ~mounted["mvm"]
       /\ mounted' = [mounted EXCEPT !["mvm"] = TRUE]
       /\ isInstalled' = [isInstalled EXCEPT !["mvm"] = present["mvm"]]
       /\ IF present["mvm"]
          THEN /\ MayStart("mvm")
               /\ chk' = [chk EXCEPT !["mvm"] = "isConnected"]
               /\ ev' = [Event("useEffect", "mvm", "", "")
                            EXCEPT !.requests = <<"isConnected">>]
          ELSE /\ UNCHANGED chk
               /\ ev' = Event("useEffect", "mvm", "", "")
       /\ UNCHANGED <<present, isConnected, address, fetchingBalances, conns, discs,
                      fetches, viewVars, events>>

\* checkConnectionStatus after petra.isConnected() answered (or threw).
MVM_checkConnectionStatus ==
    /\ UNCHANGED <<transfer, dialog>>
    /\ /\ chk["mvm"] = "isConnected"
       /\ \E r \in {"true", "false", "throw"} :
            IF r = "true"
            THEN /\ chk' = [chk EXCEPT !["mvm"] = "account"]
                 /\ ev' = [Event("checkConnectionStatus", "mvm", "isConnected", r)
                              EXCEPT !.requests = <<"account">>]
            ELSE /\ chk' = [chk EXCEPT !["mvm"] = "none"]
                 /\ ev' = Event("checkConnectionStatus", "mvm", "isConnected", r)
       /\ UNCHANGED <<present, mounted, isConnected, address, isInstalled,
                      fetchingBalances, conns, discs, fetches, viewVars, events>>

\* checkConnectionStatus after petra.account() answered: r is
\* account.address, Null when it is missing, "throw" for a rejection.
MVM_checkConnectionStatus_account ==
    /\ UNCHANGED <<transfer, dialog>>
    /\ /\ chk["mvm"] = "account"
       /\ chk' = [chk EXCEPT !["mvm"] = "none"]
       /\ \E r \in Accounts \cup {Null, "throw"} :
            IF r \in Accounts
            THEN checkSucceeded("mvm", "account", r)
            ELSE /\ UNCHANGED <<address, isConnected, fetchingBalances, fetches>>
                 /\ ev' = Event("checkConnectionStatus", "mvm", "account", r)
       /\ UNCHANGED <<present, mounted, isInstalled, conns, discs, viewVars, events>>

\* The onAccountChange callback; newAddress is Null for an empty value.
MVM_onAccountChange ==
    /\ UNCHANGED <<transfer, dialog>>
    /\ /\ Listening("mvm") /\ Stimulus
       /\ events' = events + 1
       /\ \E newAddress \in ChangedAccounts \cup {Null} :
            accountChanged("mvm", "onAccountChange", newAddress)
       /\ UNCHANGED <<present, mounted, isInstalled, chk, conns, discs>>

\* The onNetworkChange callback.
MVM_onNetworkChange ==
    /\ UNCHANGED <<transfer, dialog>>
    /\ /\ Listening("mvm") /\ Stimulus
       /\ events' = events + 1
       /\ networkChanged("mvm", "onNetworkChange")
       /\ UNCHANGED <<present, mounted, isConnected, address, isInstalled, chk,
                      conns, discs, viewVars>>

\* fetchTokenBalances after client.getAccountResources answered (or threw):
\* the coin stores are filtered and one metadata lookup per store is started.
MVM_fetch_resources ==
    /\ UNCHANGED <<transfer, dialog>>
    /\ \E f \in BagToSet(fetches["mvm"]) :
         /\ f.stage = "getAccountResources"
         /\ \E threw \in BOOLEAN, resources \in ResourceLists :
              IF ~threw
              THEN /\ fetches' = [fetches EXCEPT !["mvm"] =
                         (@ (-) OneBag(f))
                         (+) OneBag([f EXCEPT !.stage = "getAccountResource",
                                              !.stores = coinStores(resources)])]
                   /\ ev' = [Event("fetchTokenBalances", "mvm", "getAccountResources", "ok")
                                EXCEPT !.stores = coinStores(resources),
                                       !.requests = [i \in 1..Len(coinStores(resources))
                                                       |-> "getAccountResource"]]
                   /\ UNCHANGED <<viewVars, fetchingBalances>>
              ELSE /\ fetchDeliver("mvm", f, fetchFailed("mvm"))
                   /\ ev' = [Event("fetchTokenBalances", "mvm", "getAccountResources", "throw")
                                EXCEPT !.delivered = <<fetchFailed("mvm")>>]
         /\ UNCHANGED <<present, mounted, isConnected, address, isInstalled, chk,
                        conns, discs, events>>

\* fetchTokenBalances after Promise.all settled: `failed` are the coin stores
\* whose metadata lookup threw (each is caught in the map callback).
MVM_fetch_metadata ==
    /\ UNCHANGED <<transfer, dialog>>
    /\ \E f \in BagToSet(fetches["mvm"]) :
         /\ f.stage = "getAccountResource"
         /\ \E failed \in SUBSET (1..Len(f.stores)) :
              LET tokenBalances == MVM_tokenBalances(f.stores, failed)
              IN  /\ fetchDeliver("mvm", f, tokenBalances)
                  /\ ev' = [Event("fetchTokenBalances", "mvm", "getAccountResource", "ok")
                               EXCEPT !.delivered = <<tokenBalances>>,
                                      !.stores = f.stores,
                                      !.failed = failed]
         /\ UNCHANGED <<present, mounted, isConnected, address, isInstalled, chk,
                        conns, discs, events>>

MVM_connectWallet == connectWallet("mvm")

\* connectWallet after petra.connect() answered (or threw).
MVM_connectWallet_resume ==
    /\ UNCHANGED <<transfer, dialog>>
    /\ \E call \in BagToSet(conns["mvm"]) :
         /\ call.stage = "connect"
         /\ \E threw \in BOOLEAN :
              IF ~threw
              THEN /\ conns' = [conns EXCEPT !["mvm"] =
                         (@ (-) OneBag(call)) (+) OneBag([call EXCEPT !.stage = "account"])]
                   /\ ev' = [Event("connectWallet", "mvm", "connect", "ok")
                                EXCEPT !.requests = <<"account">>]
                   /\ UNCHANGED <<address, isConnected, fetchingBalances, fetches>>
              ELSE /\ conns' = [conns EXCEPT !["mvm"] = @ (-) OneBag(call)]
                   /\ connectFailed("mvm", "connect")
         /\ UNCHANGED <<present, mounted, isInstalled, chk, discs, viewVars, events>>

\* connectWallet after petra.account() answered: r is account.address, Null
\* when it is missing, "throw" for a rejection.
MVM_connectWallet_account ==
    /\ UNCHANGED <<transfer, dialog>>
    /\ \E call \in BagToSet(conns["mvm"]) :
         /\ call.stage = "account"
         /\ conns' = [conns EXCEPT !["mvm"] = @ (-) OneBag(call)]
         /\ \E r \in Accounts \cup {Null, "throw"} :
              CASE r \in Accounts -> connectSucceeded("mvm", "account", r, call)
                [] r = Null -> connectNoAccount("mvm", "account")
                [] r = "throw" -> connectFailed("mvm", "account")
         /\ UNCHANGED <<present, mounted, isInstalled, chk, discs, viewVars, events>>

MVM_disconnectWallet == disconnectWallet("mvm")

MVM_disconnectWallet_resume == disconnectWallet_resume("mvm")

MVM_Next ==
    \/ MVM_useEffect
    \/ MVM_checkConnectionStatus
    \/ MVM_checkConnectionStatus_account
    \/ MVM_onAccountChange
    \/ MVM_onNetworkChange
    \/ MVM_fetch_resources
    \/ MVM_fetch_metadata
    \/ MVM_connectWallet
    \/ MVM_connectWallet_resume
    \/ MVM_connectWallet_account
    \/ MVM_disconnectWallet
    \/ MVM_disconnectWallet_resume

----------------------------------------------------------------------------
\* The connectors and the aggregation view

Next == EVM_Next \/ SVM_Next \/ MVM_Next

\* One wallet extension installed, or none.
Init == InitWith({p \in [Chains -> BOOLEAN] : Cardinality({c \in Chains : p[c]}) <= 1})

Spec == Init /\ [][Next]_vars

\* The three wallet extensions installed.
InitAll == InitWith({[c \in Chains |-> TRUE]})

SpecAll == InitAll /\ [][Next]_vars

\* Every awaited request of a balance fetch eventually resolves or rejects:
\* the continuations of fetchTokenBalances are not postponed for ever.
FetchSettles ==
    \/ EVM_fetch_chainId
    \/ EVM_fetch_getBalance
    \/ SVM_fetch_getBalance
    \/ MVM_fetch_resources
    \/ MVM_fetch_metadata

SpecLive == Init /\ [][Next]_vars /\ WF_vars(FetchSettles)

\* Two wallet extensions installed, Phantom and one other: the calls of two
\* connectors interleave.
InitTwo ==
    InitWith({p \in [Chains -> BOOLEAN] :
                p["svm"] /\ Cardinality({c \in Chains : p[c]}) = 2})

SpecTwo == InitTwo /\ [][Next]_vars

----------------------------------------------------------------------------
\* utils/wallet: amounts

\* An amount string is held as its characters, so that parsing is computed.
Amounts ==
    { <<"2", ".", "0">>, <<"1", ".", "5">>, <<"0", ".", "5">>, <<"0">>,
      <<"-", "1">>, <<"a", "b", "c">> }

RECURSIVE Join(_)
Join(chars) == IF chars = <<>> THEN "" ELSE Head(chars) \o Join(Tail(chars))

IsDigit(ch) == \E d \in 1..10 : DigitChars[d] = ch

DigitValue(ch) == (CHOOSE d \in 1..10 : DigitChars[d] = ch) - 1

\* Length of the longest prefix of decimal digits.
RECURSIVE DigitsLen(_)
DigitsLen(chars) ==
    IF chars # <<>> /\ IsDigit(Head(chars)) THEN 1 + DigitsLen(Tail(chars)) ELSE 0

RECURSIVE DigitsValue(_)
DigitsValue(digits) ==
    IF digits = <<>> THEN 0
    ELSE 10 * DigitsValue(SubSeq(digits, 1, Len(digits) - 1))
         + DigitValue(digits[Len(digits)])

\* The decimal literal at the head of chars: sign, integer digits, fraction
\* digits, and what follows it.
Literal(chars) ==
    LET signed == chars # <<>> /\ Head(chars) \in {"-", "+"}
        body == IF signed THEN Tail(chars) ELSE chars
        n == DigitsLen(body)
        rest == SubSeq(body, n + 1, Len(body))
        dot == rest # <<>> /\ Head(rest) = "."
        m == IF dot THEN DigitsLen(Tail(rest)) ELSE 0
    IN  [sign |-> IF signed THEN Head(chars) ELSE "",
         int |-> SubSeq(body, 1, n),
         frac |-> IF dot THEN SubSeq(rest, 2, m + 1) ELSE <<>>,
         rest |-> IF dot THEN SubSeq(rest, m + 2, Len(rest)) ELSE rest]

LiteralNumber(lit) ==
    LET mantissa == DigitsValue(lit.int \o lit.frac)
    IN  [nan |-> FALSE, num |-> IF lit.sign = "-" THEN -mantissa ELSE mantissa,
         scale |-> Len(lit.frac)]

\* parseFloat(amount): the longest numeric prefix, NaN when there is none.
parseFloat(chars) ==
    LET lit == Literal(chars)
    IN  IF lit.int = <<>> /\ lit.frac = <<>> THEN NaN ELSE LiteralNumber(lit)

\* x * k for an integer k that 10^scale divides (the amounts of the model
\* have at most one fractional digit, and their products are exact doubles).
Times(x, k) == IF x.nan THEN NaN ELSE Number(x.num * (k \div Pow10(x.scale)))

\* Mutant: the comparison is the other way round.
LessThan_flipped(a, b) ==
    /\ ~a.nan /\ ~b.nan
    /\ b.num * Pow10(a.scale) < a.num * Pow10(b.scale)

\* a < b on JavaScript numbers: false when either is NaN.
LessThan(a, b) ==
    /\ ~a.nan /\ ~b.nan
    /\ a.num * Pow10(b.scale) < b.num * Pow10(a.scale)

IntToStr(n) == IF n < 0 THEN "-" \o NatToStr(-n) ELSE NatToStr(n)

\* ethers.parseEther / parseUnits throw unless the whole string is a decimal
\* literal without "+" sign.
parseUnitsThrows(chars) ==
    LET lit == Literal(chars)
    IN  \/ lit.rest # <<>>
        \/ lit.sign = "+"
        \/ lit.int = <<>> /\ lit.frac = <<>>

\* new BigNumber(amount).multipliedBy(new BigNumber(10).pow(decimals)).toFixed(0)
amountInSmallestUnit(chars, decimals) ==
    LET lit == Literal(chars)
        x == LiteralNumber(lit)
    IN  IF lit.rest # <<>> \/ (lit.int = <<>> /\ lit.frac = <<>>) THEN "NaN"
        ELSE IntToStr(x.num * Pow10(decimals - x.scale))

----------------------------------------------------------------------------
\* utils/wallet: transferTokens and the three transfer routines

Erc20Token == Token("cUSD", "cUSD", "Celo Dollar", "10.0", 18, "0xc05d", "evm")
NoAddressToken == Token("CELO", "CELO", "Celo", "1.5", 18, "", "evm")
\* An MVM token whose address is no type tag (it has no "::").
NoTypeTagToken == Token("0xc01", "COIN", "Coin", "3", 6, "0xc01", "mvm")

\* The tokens a transfer is asked for: what the connectors deliver, an
\* ERC-20 token, an EVM token without address and an MVM token whose
\* address is no type tag.
TransferTokens ==
    { EVM_nativeToken("0xaef3", 1500000000), EVM_nativeToken("0x1", 1500000000),
      EVM_emptyToken, SVM_solToken(1500000000), SVM_emptyToken,
      MVM_token(CoinStore(AptosCoin, 250000000), FALSE),
      MVM_token(CoinStore(UsdCoin, 1500000), FALSE), MVM_emptyToken,
      Erc20Token, NoAddressToken, NoTypeTagToken }

ToAddresses == {"0xd35701"}

\* connection.getBalance(publicKey) of the sender, in lamports.
SenderBalances == {0, 1500000000}

Toast(title, description) == [title |-> title, description |-> description]

\* The routine returns `result` after emitting `toast`.
Return(t, result, toast) ==
    [t EXCEPT !.pc = "returned", !.returned = result, !.toasts = Append(@, toast)]

\* Mutant: the catch block rethrows to the caller.
TransferFailed_rethrow(t) == [t EXCEPT !.pc = "returned", !.returned = "raised"]

\* The catch block of a transfer routine.
TransferFailed(t) == Return(t, "false", Toast("Transfer Failed", "error.message"))

TransferSuccessful(t) == Return(t, "true", Toast("Transfer Successful", "Transferred"))

\* What the awaited confirmation call settled with: "ok", "err" (resolved
\* with a value that reports a transaction error) or "throw".
Settled(t, r) == [t EXCEPT !.confirmation = r]

\* The routine issues `call` and is suspended at `pc` until it settles.
Await(t, pc, call) == [t EXCEPT !.pc = pc, !.calls = Append(@, call)]

Submitted(t, kind, asset, amount) ==
    [t EXCEPT !.sent = Append(@, [kind |-> kind, to |-> t.toAddress,
                                  asset |-> asset, amount |-> amount])]

\* transferERC20 up to its first await; chainId is the chain id of its
\* network requests.
transferERC20(t, tokenAddress) ==
    LET u == [t EXCEPT !.routines = Append(@, "transferERC20"),
                       !.tokenAddress = tokenAddress,
                       !.chainId = "0xaef3"]
    IN  IF ~present["evm"]
        THEN Return(u, "false", Toast("Error", "No Ethereum wallet found. Please install MetaMask."))
        ELSE Await(u, "switchEthereumChain", "wallet_switchEthereumChain")

\* transferSOL up to its first await.
transferSOL(t, connected) ==
    LET u == [t EXCEPT !.routines = Append(@, "transferSOL")]
    IN  IF ~present["svm"]
        THEN Return(u, "false", Toast("Error", "No Solana wallet found. Please install Phantom."))
        ELSE IF ~connected THEN Await(u, "solana.connect", "solana.connect")
        ELSE Await(u, "getBalance", "connection.getBalance")

\* transferMVMToken up to its first await.
transferMVMToken(t) ==
    LET u == [t EXCEPT !.routines = Append(@, "transferMVMToken")]
    IN  IF ~present["mvm"]
        THEN Return(u, "false", Toast("Error", "Petra wallet not installed."))
        ELSE Await(u, "petra.isConnected", "petra.isConnected")

transferUnchanged == UNCHANGED <<adapterVars, viewVars, ev, events, dialog>>

\* Mutant: the cases "svm" and "mvm" call each other's routine.
switchChain_swapped(t, connected) ==
    CASE t.token.chain = "evm" ->
           transferERC20(t, IF t.token.address = "" THEN "native"
                            ELSE t.token.address)
      [] t.token.chain = "svm" -> transferMVMToken(t)
      [] t.token.chain = "mvm" -> transferSOL(t, connected)
      [] OTHER -> Return(t, "false", Toast("Error", "Unsupported chain"))

\* Mutant: the switch falls through to the EVM routine.
switchChain_defaultEVM(t, connected) ==
    CASE t.token.chain = "svm" -> transferSOL(t, connected)
      [] t.token.chain = "mvm" -> transferMVMToken(t)
      [] OTHER -> transferERC20(t, IF t.token.address = "" THEN "native"
                                   ELSE t.token.address)

\* switch (token.chain); solana.isConnected is `connected`.
switchChain(t, connected) ==
    CASE t.token.chain = "evm" ->
           transferERC20(t, IF t.token.address = "" THEN "native"
                            ELSE t.token.address)
      [] t.token.chain = "svm" -> transferSOL(t, connected)
      [] t.token.chain = "mvm" -> transferMVMToken(t)
      [] OTHER -> Return(t, "false", Toast("Error", "Unsupported chain"))

\* transferTokens(params): the switch on token.chain, and the routine it
\* calls up to that routine's first await.
transferTokens ==
    /\ transfer.pc \in {"idle", "returned"}
    /\ \E token \in TransferTokens, toAddress \in ToAddresses, amount \in Amounts,
          connected \in BOOLEAN :
         LET t == [NoTransfer EXCEPT !.token = token, !.toAddress = toAddress,
                                     !.amount = amount]
         IN  transfer' = switchChain(t, connected)
    /\ transferUnchanged

\* const signer = await provider.getSigner()
getSigner(t) == Await(t, "getSigner", "provider.getSigner")

\* Mutant: a failed network request is ignored and the transfer goes on.
NetworkError_proceed(t, description) == getSigner(t)

NetworkError(t, description) == Return(t, "false", Toast("Network Error", description))

\* What a wallet_switchEthereumChain / wallet_addEthereumChain request
\* settled with: "ok", "4902" (rejected with the unrecognized-chain code) or
\* "throw" (any other rejection).
Answered(t, r) == [t EXCEPT !.network = Append(@, r)]

\* transferERC20: wallet_switchEthereumChain settles.
transferERC20_switchEthereumChain ==
    /\ transfer.pc = "switchEthereumChain"
    /\ \E r \in {"ok", "4902", "throw"} :
         transfer' =
           CASE r = "ok" -> getSigner(Answered(transfer, r))
             [] r = "4902" ->
                  Await(Answered(transfer, r), "addEthereumChain",
                        "wallet_addEthereumChain")
             [] OTHER ->
                  NetworkError(Answered(transfer, r),
                               "Please switch to Celo Alfajores manually.")
    /\ transferUnchanged

\* transferERC20: wallet_addEthereumChain settles.
transferERC20_addEthereumChain ==
    /\ transfer.pc = "addEthereumChain"
    /\ \E threw \in BOOLEAN :
         transfer' =
           IF threw
           THEN NetworkError(Answered(transfer, "throw"),
                             "Could not switch to Celo Alfajores network")
           ELSE Await(Answered(transfer, "ok"), "switchEthereumChain2",
                      "wallet_switchEthereumChain")
    /\ transferUnchanged

\* transferERC20: the wallet_switchEthereumChain after the add settles.
transferERC20_switchEthereumChain2 ==
    /\ transfer.pc = "switchEthereumChain2"
    /\ \E threw \in BOOLEAN :
         transfer' =
           IF threw
           THEN NetworkError(Answered(transfer, "throw"),
                             "Could not switch to Celo Alfajores network")
           ELSE getSigner(Answered(transfer, "ok"))
    /\ transferUnchanged

\* Mutant: every token is sent as an ERC-20 contract transfer.
sendMode_contract(t) == Await(t, "decimals", "tokenContract.decimals")

\* Mutant: every token is sent as a native value transfer.
sendMode_native(t) ==
    IF parseUnitsThrows(t.amount) THEN TransferFailed(t)
    ELSE Await(t, "sendTransaction", "signer.sendTransaction")

\* if (tokenAddress && tokenAddress !== "native") ... else ...: up to the
\* await of decimals() or of sendTransaction().
sendMode(t) ==
    IF t.tokenAddress # "" /\ t.tokenAddress # "native"
    THEN Await(t, "decimals", "tokenContract.decimals")
    ELSE IF parseUnitsThrows(t.amount) THEN TransferFailed(t)
    ELSE Await(t, "sendTransaction", "signer.sendTransaction")

\* transferERC20: getSigner settles; the branch on tokenAddress.
transferERC20_getSigner ==
    /\ transfer.pc = "getSigner"
    /\ \E threw \in BOOLEAN :
         transfer' =
           IF threw THEN TransferFailed(transfer) ELSE sendMode(transfer)
    /\ transferUnchanged

\* transferERC20: tokenContract.decimals() settles.
transferERC20_decimals ==
    /\ transfer.pc = "decimals"
    /\ \E threw \in BOOLEAN :
         transfer' =
           IF threw \/ parseUnitsThrows(transfer.amount) THEN TransferFailed(transfer)
           ELSE Await(transfer, "transfer", "tokenContract.transfer")
    /\ transferUnchanged

\* transferERC20: tokenContract.transfer(toAddress, amountInWei) settles.
transferERC20_transfer ==
    /\ transfer.pc = "transfer"
    /\ \E threw \in BOOLEAN :
         transfer' =
           IF threw THEN TransferFailed(transfer)
           ELSE Await(Submitted(transfer, "erc20", transfer.tokenAddress,
                                Join(transfer.amount)),
                      "wait", "tx.wait")
    /\ transferUnchanged

\* transferERC20: signer.sendTransaction({to, value}) settles.
transferERC20_sendTransaction ==
    /\ transfer.pc = "sendTransaction"
    /\ \E threw \in BOOLEAN :
         transfer' =
           IF threw THEN TransferFailed(transfer)
           ELSE Await(Submitted(transfer, "native", "native", Join(transfer.amount)),
                      "wait", "tx.wait")
    /\ transferUnchanged

\* transferERC20: tx.wait() settles.
transferERC20_wait ==
    /\ transfer.pc = "wait"
    /\ \E r \in {"ok", "throw"} :
         transfer' = IF r = "throw" THEN TransferFailed(Settled(transfer, r))
                     ELSE TransferSuccessful(Settled(transfer, r))
    /\ transferUnchanged

\* transferSOL: solana.connect() settles.
transferSOL_connect ==
    /\ transfer.pc = "solana.connect"
    /\ \E threw \in BOOLEAN :
         transfer' = IF threw THEN TransferFailed(transfer)
                     ELSE Await(transfer, "getBalance", "connection.getBalance")
    /\ transferUnchanged

\* Whether building the transfer instruction throws is the library's
\* business when lamports is not a natural number; it does not otherwise.
TransactionThrows(lamports) ==
    IF ~lamports.nan /\ lamports.num >= 0 THEN {FALSE} ELSE BOOLEAN

NumberToStr(x) == IF x.nan THEN "NaN" ELSE IntToStr(x.num)

\* transferSOL: connection.getBalance(publicKey) settles; the balance check
\* and the construction of the transaction.
transferSOL_getBalance ==
    /\ transfer.pc = "getBalance"
    /\ \E threw \in BOOLEAN, currentBalance \in SenderBalances :
         LET transferAmount == Times(parseFloat(transfer.amount), LAMPORTS_PER_SOL)
             t == [transfer EXCEPT !.currentBalance = Number(currentBalance),
                                   !.transferAmount = transferAmount]
         IN  IF threw THEN transfer' = TransferFailed(transfer)
             ELSE IF LessThan(t.currentBalance, transferAmount)
             THEN transfer' = Return(t, "false",
                                     Toast("Insufficient Balance", "You need at least"))
             ELSE \E txThrew \in TransactionThrows(transferAmount) :
                    transfer' =
                      IF txThrew THEN TransferFailed(t)
                      ELSE Await([t EXCEPT !.calls = Append(@, "SystemProgram.transfer")],
                                 "getLatestBlockhash", "connection.getLatestBlockhash")
    /\ transferUnchanged

\* transferSOL: connection.getLatestBlockhash() settles.
transferSOL_getLatestBlockhash ==
    /\ transfer.pc = "getLatestBlockhash"
    /\ \E threw \in BOOLEAN :
         transfer' = IF threw THEN TransferFailed(transfer)
                     ELSE Await(transfer, "signTransaction", "solana.signTransaction")
    /\ transferUnchanged

\* transferSOL: solana.signTransaction(transaction) settles.
transferSOL_signTransaction ==
    /\ transfer.pc = "signTransaction"
    /\ \E threw \in BOOLEAN :
         transfer' = IF threw THEN TransferFailed(transfer)
                     ELSE Await(transfer, "sendRawTransaction",
                                "connection.sendRawTransaction")
    /\ transferUnchanged

\* transferSOL: connection.sendRawTransaction(...) settles.
transferSOL_sendRawTransaction ==
    /\ transfer.pc = "sendRawTransaction"
    /\ \E threw \in BOOLEAN :
         transfer' =
           IF threw THEN TransferFailed(transfer)
           ELSE Await(Submitted(transfer, "sol", "SOL",
                                NumberToStr(transfer.transferAmount)),
                      "confirmTransaction", "connection.confirmTransaction")
    /\ transferUnchanged

\* transferSOL: connection.confirmTransaction(signature, "confirmed")
\* settles; a resolved value is not inspected.
transferSOL_confirmTransaction ==
    /\ transfer.pc = "confirmTransaction"
    /\ \E r \in {"ok", "err", "throw"} :
         transfer' = IF r = "throw" THEN TransferFailed(Settled(transfer, r))
                     ELSE TransferSuccessful(Settled(transfer, r))
    /\ transferUnchanged

\* transferMVMToken: petra.isConnected() settles.
transferMVMToken_isConnected ==
    /\ transfer.pc = "petra.isConnected"
    /\ \E threw \in BOOLEAN, connected \in BOOLEAN :
         transfer' =
           IF threw THEN TransferFailed(transfer)
           ELSE IF ~connected THEN Await(transfer, "petra.connect", "petra.connect")
           ELSE Await(transfer, "petra.account", "petra.account")
    /\ transferUnchanged

\* transferMVMToken: petra.connect() settles.
transferMVMToken_connect ==
    /\ transfer.pc = "petra.connect"
    /\ \E threw \in BOOLEAN :
         transfer' = IF threw THEN TransferFailed(transfer)
                     ELSE Await(transfer, "petra.account", "petra.account")
    /\ transferUnchanged

\* transferMVMToken: petra.account() settles.
transferMVMToken_account ==
    /\ transfer.pc = "petra.account"
    /\ \E r \in Accounts \cup {"", "throw"} :
         transfer' =
           CASE r = "throw" -> TransferFailed(transfer)
             [] r = "" ->
                  Return(transfer, "false",
                         Toast("Error", "Could not get Petra wallet address."))
             [] OTHER -> Await(transfer, "getLedgerInfo", "client.getLedgerInfo")
    /\ transferUnchanged

\* typeTag.includes("::")
RECURSIVE IncludesColons(_)
IncludesColons(chars) ==
    /\ Len(chars) >= 2
    /\ \/ chars[1] = ":" /\ chars[2] = ":"
       \/ IncludesColons(Tail(chars))

\* The characters of the token addresses of the model.
AddressChars(addr) ==
    CASE addr = AptosCoin -> <<"0x1", ":", ":", "aptos_coin", ":", ":", "AptosCoin">>
      [] addr = UsdCoin -> <<"0xa", ":", ":", "usd", ":", ":", "USD">>
      [] addr = "" -> <<>>
      [] OTHER -> <<addr>>

\* Mutant: the token's address is the type argument, whatever it is.
typeTag_address(token) == token.address

\* let typeTag = token.address; if (!typeTag || !typeTag.includes("::")) ...
typeTag(token) ==
    IF token.address = "" \/ ~IncludesColons(AddressChars(token.address))
    THEN "0x1::aptos_coin::AptosCoin"
    ELSE token.address

\* transferMVMToken: client.getLedgerInfo() settles.
transferMVMToken_getLedgerInfo ==
    /\ transfer.pc = "getLedgerInfo"
    /\ \E threw \in BOOLEAN :
         transfer' = IF threw THEN TransferFailed(transfer)
                     ELSE Await(transfer, "signAndSubmitTransaction",
                                "petra.signAndSubmitTransaction")
    /\ transferUnchanged

\* transferMVMToken: petra.signAndSubmitTransaction({payload}) settles.
transferMVMToken_signAndSubmitTransaction ==
    /\ transfer.pc = "signAndSubmitTransaction"
    /\ \E threw \in BOOLEAN :
         transfer' =
           IF threw THEN TransferFailed(transfer)
           ELSE Await(Submitted(transfer, "0x1::coin::transfer",
                                typeTag(transfer.token),
                                amountInSmallestUnit(transfer.amount,
                                                     transfer.token.decimals)),
                      "waitForTransaction", "client.waitForTransaction")
    /\ transferUnchanged

\* transferMVMToken: client.waitForTransaction(hash, {checkSuccess}) settles.
transferMVMToken_waitForTransaction ==
    /\ transfer.pc = "waitForTransaction"
    /\ \E r \in {"ok", "throw"} :
         transfer' = IF r = "throw" THEN TransferFailed(Settled(transfer, r))
                     ELSE TransferSuccessful(Settled(transfer, r))
    /\ transferUnchanged

NextTransfer ==
    \/ transferTokens
    \/ transferERC20_switchEthereumChain
    \/ transferERC20_addEthereumChain
    \/ transferERC20_switchEthereumChain2
    \/ transferERC20_getSigner
    \/ transferERC20_decimals
    \/ transferERC20_transfer
    \/ transferERC20_sendTransaction
    \/ transferERC20_wait
    \/ transferSOL_connect
    \/ transferSOL_getBalance
    \/ transferSOL_getLatestBlockhash
    \/ transferSOL_signTransaction
    \/ transferSOL_sendRawTransaction
    \/ transferSOL_confirmTransaction
    \/ transferMVMToken_isConnected
    \/ transferMVMToken_connect
    \/ transferMVMToken_account
    \/ transferMVMToken_getLedgerInfo
    \/ transferMVMToken_signAndSubmitTransaction
    \/ transferMVMToken_waitForTransaction

\* Any set of wallet extensions installed; transfers only.
InitTransfer == InitWith([Chains -> BOOLEAN])

SpecTransfer == InitTransfer /\ [][NextTransfer]_vars

----------------------------------------------------------------------------
\* Index: the transfer dialog

\* The rows of the token table a Send button can be clicked in.
Rows == TransferTokens

\* What the amount field (an input of type number) can hold besides "".
NumberInputs == {a \in Amounts : ~parseFloat(a).nan}

pageUnchanged == UNCHANGED <<adapterVars, viewVars, ev, events>>

\* The Index handler `op` ran on dialog state d and notified `toasts`.
Ran(d, op, toasts) == [d EXCEPT !.op = op, !.toasts = toasts]

\* The Send button of a row (the dialog is modal: the rows are clickable
\* while it is closed), clicked while no handleSubmitTransfer call is pending.
handleTransfer ==
    /\ ~dialog.isTransferDialogOpen
    /\ dialog.pc = "idle"
    /\ \E token \in Rows :
         dialog' = Ran([dialog EXCEPT !.selectedToken = token, !.toAddress = "",
                                      !.amount = <<>>, !.isTransferDialogOpen = TRUE],
                       "handleTransfer", <<>>)
    /\ UNCHANGED transfer
    /\ pageUnchanged

\* onChange of the recipient address field.
setToAddress ==
    /\ dialog.isTransferDialogOpen
    /\ \E value \in ToAddresses \cup {""} :
         dialog' = Ran([dialog EXCEPT !.toAddress = value], "setToAddress", <<>>)
    /\ UNCHANGED transfer
    /\ pageUnchanged

\* onChange of the amount field.
setAmount ==
    /\ dialog.isTransferDialogOpen
    /\ \E value \in NumberInputs \cup {<<>>} :
         dialog' = Ran([dialog EXCEPT !.amount = value], "setAmount", <<>>)
    /\ UNCHANGED transfer
    /\ pageUnchanged

\* onOpenChange(false): the user closes the dialog.
onOpenChange ==
    /\ dialog.isTransferDialogOpen
    /\ dialog' = Ran([dialog EXCEPT !.isTransferDialogOpen = FALSE], "onOpenChange", <<>>)
    /\ UNCHANGED transfer
    /\ pageUnchanged

\* Mutant: only the selected token is required.
fieldsMissing_tokenOnly(d) == d.selectedToken = NoDialog.selectedToken

\* !selectedToken || !toAddress || !amount
fieldsMissing(d) ==
    \/ d.selectedToken = NoDialog.selectedToken
    \/ d.toAddress = ""
    \/ d.amount = <<>>

\* The dialog's Send button: handleSubmitTransfer up to its await of
\* transferTokens(params), which runs the routine up to its first await.
\* The transfer record holds one call: the button is modelled while no
\* handleSubmitTransfer call is pending.
handleSubmitTransfer ==
    /\ dialog.isTransferDialogOpen
    /\ dialog.pc = "idle"
    /\ IF fieldsMissing(dialog)
       THEN /\ dialog' = Ran(dialog, "handleSubmitTransfer",
                             <<Toast("Error", "Please fill in all fields")>>)
            /\ UNCHANGED transfer
       ELSE /\ \E connected \in BOOLEAN :
                 transfer' = switchChain([NoTransfer EXCEPT
                                            !.token = dialog.selectedToken,
                                            !.toAddress = dialog.toAddress,
                                            !.amount = dialog.amount],
                                         connected)
            /\ dialog' = Ran([dialog EXCEPT !.pc = "awaiting"], "handleSubmitTransfer", <<>>)
    /\ pageUnchanged

\* handleSubmitTransfer after transferTokens returned `success`.
handleSubmitTransfer_resume ==
    /\ dialog.pc = "awaiting"
    /\ transfer.pc = "returned"
    /\ dialog' =
         IF transfer.returned = "true"
         THEN Ran([dialog EXCEPT !.pc = "idle", !.isTransferDialogOpen = FALSE],
                  "handleSubmitTransfer_resume", <<Toast("Success", "sent successfully!")>>)
         ELSE Ran([dialog EXCEPT !.pc = "idle"], "handleSubmitTransfer_resume", <<>>)
    /\ UNCHANGED transfer
    /\ pageUnchanged

\* The steps of the transfer routines (transferTokens is called by
\* handleSubmitTransfer).
NextRoutines ==
    \/ transferERC20_switchEthereumChain
    \/ transferERC20_addEthereumChain
    \/ transferERC20_switchEthereumChain2
    \/ transferERC20_getSigner
    \/ transferERC20_decimals
    \/ transferERC20_transfer
    \/ transferERC20_sendTransaction
    \/ transferERC20_wait
    \/ transferSOL_connect
    \/ transferSOL_getBalance
    \/ transferSOL_getLatestBlockhash
    \/ transferSOL_signTransaction
    \/ transferSOL_sendRawTransaction
    \/ transferSOL_confirmTransaction
    \/ transferMVMToken_isConnected
    \/ transferMVMToken_connect
    \/ transferMVMToken_account
    \/ transferMVMToken_getLedgerInfo
    \/ transferMVMToken_signAndSubmitTransaction
    \/ transferMVMToken_waitForTransaction

NextDialog ==
    \/ handleTransfer
    \/ setToAddress
    \/ setAmount
    \/ onOpenChange
    \/ handleSubmitTransfer
    \/ handleSubmitTransfer_resume
    \/ NextRoutines

\* The page with the three wallet extensions installed.
SpecDialog == InitAll /\ [][NextDialog]_vars

----------------------------------------------------------------------------
\* Properties of the connectors and the aggregation view

\* The last step emitted the notification `title`.
Toasted(title) == \E i \in 1..Len(ev.toasts) : ev.toasts[i] = title

\* The entries of allTokens connector d delivered, in order.
RECURSIVE entriesBy(_, _, _)
entriesBy(tokens, by, d) ==
    IF tokens = <<>> \/ by = <<>> THEN <<>>
    ELSE (IF Head(by) = d THEN <<Head(tokens)>> ELSE <<>>)
         \o entriesBy(Tail(tokens), Tail(by), d)

TokensBy(d) == entriesBy(allTokens, deliveredBy, d)

TokensWithout(tokens, c) == SelectSeq(tokens, LAMBDA t : t.chain # c)

IsPrefix(a, b) == Len(a) <= Len(b) /\ SubSeq(b, 1, Len(a)) = a

\* C1: when the extension answers a connect request with an account, the
\* connector's address is that account and isConnected is true right after,
\* and that step calls onConnectChange once and emits the "Connected"
\* notification once; no other step of connectWallet does either.
C1_ConnectSetsAddressOnce ==
    ev.op = "connectWallet" =>
      IF ev.answer \in Accounts
      THEN /\ address[ev.chain] = ev.answer
           /\ isConnected[ev.chain]
           /\ ev.onConnectChange = 1
           /\ ev.toasts = <<"Connected">>
      ELSE /\ ev.onConnectChange = 0
           /\ ~Toasted("Connected")

C1_Witness ==
    /\ ev.op = "connectWallet" /\ ev.chain = "mvm" /\ ev.answer \in Accounts
    /\ isConnected["mvm"]

\* C2 (as specified): right after a disconnect handler ran, allTokens holds no
\* token the connector delivered, isConnected is false and address is null.
C2_DisconnectClearsChain ==
    Toasted("Disconnected") =>
      /\ \A i \in 1..Len(allTokens) : deliveredBy[i] # ev.chain
      /\ ~isConnected[ev.chain]
      /\ address[ev.chain] = Null

\* C3: a delivery by connector c (fetch result or disconnect) keeps every
\* entry of allTokens whose chain tag is not c, unchanged and in the same
\* order, at the head of the list; and a step of one connector leaves the
\* entries the other connectors delivered unchanged and in the same order.
C3_OtherChainsKept ==
    [][ /\ ev'.delivered # <<>> =>
             IsPrefix(TokensWithout(allTokens, ev'.chain), allTokens')
        /\ \A d \in Chains : ev'.chain # d => entriesBy(allTokens', deliveredBy', d) = TokensBy(d) ]_vars

C3_Witness ==
    /\ Toasted("Disconnected")
    /\ \A d \in Chains \ {ev.chain} : TokensBy(d) # <<>>
    /\ TokensBy(ev.chain) = <<>>

\* C7: when the resource listing succeeded, the delivered list has one token
\* per coin store, in order; a token whose metadata lookup threw has symbol
\* "UNKNOWN" and decimals 8, every other token has the symbol and decimals
\* of its CoinInfo, and no token is the error marker.
C7_MetadataFailureKeepsToken ==
    (ev.op = "fetchTokenBalances" /\ ev.chain = "mvm" /\ ev.at = "getAccountResource") =>
      /\ Len(ev.delivered) = 1
      /\ Len(ev.delivered[1]) = Len(ev.stores)
      /\ \A i \in 1..Len(ev.stores) :
           LET t == ev.delivered[1][i]
           IN  /\ t.id = ev.stores[i].coinType
               /\ t.id # "error" /\ t.symbol # "ERR"
               /\ i \in ev.failed => t.symbol = "UNKNOWN" /\ t.decimals = 8
               /\ i \notin ev.failed =>
                    /\ t.symbol = CoinInfo(ev.stores[i].coinType).symbol
                    /\ t.decimals = CoinInfo(ev.stores[i].coinType).decimals

C7_Witness ==
    /\ ev.op = "fetchTokenBalances" /\ ev.chain = "mvm" /\ ev.at = "getAccountResource"
    /\ Len(ev.stores) = 2
    /\ ev.failed = {1}
    /\ TokensBy("mvm") = ev.delivered[1]

\* C8 (as specified): a connector has at most one balance fetch in flight.
C8_OneFetchInFlight == \A c \in Chains : BagCardinality(fetches[c]) <= 1

C10_FailureFallsBack ==
    (ev.answer = "throw" /\ ev.op \in {"connectWallet", "fetchTokenBalances"}) =>
      /\ ~isConnected[ev.chain]
      /\ TokensBy(ev.chain) = <<>>
      /\ Len(ev.toasts) = 1

\* C10 (amended): an error during connect emits the one notification
\* "Connection Failed", starts no fetch and leaves isConnected, address and
\* allTokens as they were; a balance fetch that fails emits no notification,
\* leaves isConnected and address as they were and delivers the error
\* marker, so the chain's balances are not empty.
C10_FailureHandling ==
    [][ /\ (ev'.op = "connectWallet" /\ ev'.answer = "throw") =>
             /\ ev'.toasts = <<"Connection Failed">>
             /\ ev'.started = <<>> /\ ev'.delivered = <<>>
             /\ isConnected' = isConnected /\ address' = address
             /\ allTokens' = allTokens
        /\ (ev'.op = "fetchTokenBalances" /\ ev'.answer = "throw") =>
             /\ ev'.toasts = <<>>
             /\ isConnected' = isConnected /\ address' = address
             /\ entriesBy(allTokens', deliveredBy', ev'.chain) # <<>> ]_vars

C10_Witness ==
    /\ ev.op = "fetchTokenBalances" /\ ev.answer = "throw"
    /\ isConnected[ev.chain]
    /\ TokensBy(ev.chain) # <<>>

----------------------------------------------------------------------------
\* Properties of the transfer dispatcher

Called(call) == \E i \in 1..Len(transfer.calls) : transfer.calls[i] = call

\* C4: a transferTokens call for a token whose chain tag is none of "evm",
\* "svm", "mvm" has returned false with the one notification "Unsupported
\* chain", and has called no transfer routine, issued no extension request
\* or SDK call and submitted nothing.
C4_UnsupportedChain ==
    (transfer.pc # "idle" /\ transfer.token.chain \notin {"evm", "svm", "mvm"}) =>
      /\ transfer.pc = "returned"
      /\ transfer.returned = "false"
      /\ transfer.toasts = <<Toast("Error", "Unsupported chain")>>
      /\ transfer.routines = <<>>
      /\ transfer.calls = <<>>
      /\ transfer.sent = <<>>

C4_Witness ==
    /\ transfer.pc = "returned"
    /\ transfer.token = EVM_emptyToken
    /\ transfer.returned = "false"
    /\ present = [c \in Chains |-> TRUE]

\* C5: once transferSOL has read a balance smaller than the amount in
\* lamports, it has returned false with the one notification "Insufficient
\* Balance", and no transfer instruction was built, no blockhash requested,
\* nothing signed, sent or confirmed.
C5_InsufficientBalance ==
    ( /\ transfer.routines = <<"transferSOL">>
      /\ ~transfer.currentBalance.nan /\ ~transfer.transferAmount.nan
      /\ transfer.transferAmount.num > transfer.currentBalance.num ) =>
      /\ transfer.pc = "returned"
      /\ transfer.returned = "false"
      /\ Len(transfer.toasts) = 1
      /\ transfer.toasts[1].title = "Insufficient Balance"
      /\ transfer.sent = <<>>
      /\ ~Called("SystemProgram.transfer")
      /\ ~Called("connection.getLatestBlockhash")
      /\ ~Called("solana.signTransaction")
      /\ ~Called("connection.sendRawTransaction")
      /\ ~Called("connection.confirmTransaction")

C5_Witness ==
    /\ transfer.routines = <<"transferSOL">>
    /\ transfer.amount = <<"2", ".", "0">>
    /\ transfer.currentBalance = Number(1500000000)
    /\ transfer.transferAmount = Number(2000000000)
    /\ transfer.returned = "false"

\* C6: a transferERC20 call for token address "native": makes no ERC-20
\* contract call and submits at most one transaction, a native value
\* transfer; when the first switch request succeeded it requests no network
\* add, and with signer, send and wait succeeding its calls are exactly
\* switch, getSigner, sendTransaction, wait; it has returned true only with
\* one native transaction submitted to the destination and tx.wait() as its
\* last, settled call, and has not returned while that wait is pending.
C6_NativeTransfer ==
    (transfer.routines = <<"transferERC20">> /\ transfer.tokenAddress = "native") =>
      /\ ~Called("tokenContract.decimals") /\ ~Called("tokenContract.transfer")
      /\ Len(transfer.sent) <= 1
      /\ \A i \in 1..Len(transfer.sent) : transfer.sent[i].kind = "native"
      /\ (Len(transfer.calls) >= 2 /\ transfer.calls[2] = "provider.getSigner") =>
           /\ ~Called("wallet_addEthereumChain")
           /\ Len(transfer.calls) <= 4
           /\ Len(transfer.calls) >= 3 => transfer.calls[3] = "signer.sendTransaction"
           /\ Len(transfer.calls) = 4 => transfer.calls[4] = "tx.wait"
      /\ transfer.pc = "wait" => transfer.returned = "none" /\ Len(transfer.sent) = 1
      /\ transfer.returned = "true" =>
           /\ transfer.pc = "returned"
           /\ transfer.sent = <<[kind |-> "native", to |-> transfer.toAddress,
                                 asset |-> "native", amount |-> Join(transfer.amount)]>>
           /\ transfer.calls[Len(transfer.calls)] = "tx.wait"
           /\ transfer.toasts = <<Toast("Transfer Successful", "Transferred")>>

C6_Witness ==
    /\ transfer.token = EVM_nativeToken("0xaef3", 1500000000)
    /\ transfer.tokenAddress = "native"
    /\ transfer.amount = <<"0", ".", "5">>
    /\ transfer.calls = <<"wallet_switchEthereumChain", "provider.getSigner",
                          "signer.sendTransaction", "tx.wait">>
    /\ transfer.returned = "true"

\* The titles of the notifications with variant "destructive".
FailureTitles == {"Error", "Network Error", "Insufficient Balance", "Transfer Failed"}

\* C11: every transferTokens call that has returned has returned a boolean,
\* whichever of its awaited calls failed and whichever extension is absent;
\* a call that returned false has emitted exactly one notification, a
\* failure notification, and a call that returned true exactly the success
\* notification; a call that has not returned has emitted nothing.
C11_NoTransferRaises ==
    /\ transfer.pc = "returned" => transfer.returned \in {"true", "false"}
    /\ transfer.pc \notin {"idle", "returned"} =>
         transfer.returned = "none" /\ transfer.toasts = <<>>
    /\ transfer.returned = "false" =>
         Len(transfer.toasts) = 1 /\ transfer.toasts[1].title \in FailureTitles
    /\ transfer.returned = "true" =>
         transfer.toasts = <<Toast("Transfer Successful", "Transferred")>>

C11_Witness ==
    /\ transfer.pc = "returned"
    /\ transfer.returned = "false"
    /\ transfer.confirmation = "throw"
    /\ transfer.routines = <<"transferMVMToken">>
    /\ transfer.toasts = <<Toast("Transfer Failed", "error.message")>>

\* The calls that hand a transaction to a wallet or a node.
SubmitCalls ==
    {"signer.sendTransaction", "tokenContract.transfer",
     "connection.sendRawTransaction", "petra.signAndSubmitTransaction"}

\* C12 (as specified): a call has returned true only with one transaction
\* submitted and its confirmation successful; a call submits at most one
\* transaction and issues at most one submit request (no retry).
C12_TrueOnlyWhenConfirmed ==
    /\ transfer.returned = "true" =>
         Len(transfer.sent) = 1 /\ transfer.confirmation = "ok"
    /\ Len(transfer.sent) <= 1
    /\ Cardinality({i \in 1..Len(transfer.calls) : transfer.calls[i] \in SubmitCalls}) <= 1

----------------------------------------------------------------------------
\* Properties of the connectors: connect, mount, deliveries

\* C13: a click on Connect in a connector that detected no extension
\* (isInstalled false) opens the install page and nothing else: no request
\* to an extension, no notification, no onConnectChange, no fetch, no
\* delivery, no pending call, and isConnected, address and allTokens stay
\* as they were; the install page is opened by no other step.
C13_ConnectWhenAbsent ==
    [][ /\ (ev'.op = "connectWallet" /\ ev'.at = "" /\ ~isInstalled[ev'.chain]) =>
             /\ ev'.opened
             /\ ev'.requests = <<>> /\ ev'.toasts = <<>>
             /\ ev'.onConnectChange = 0
             /\ ev'.started = <<>> /\ ev'.delivered = <<>>
             /\ isConnected' = isConnected /\ address' = address
             /\ allTokens' = allTokens
             /\ conns' = conns /\ fetches' = fetches /\ chk' = chk
        /\ ev'.opened =>
             ev'.op = "connectWallet" /\ ev'.at = "" /\ ~isInstalled[ev'.chain] ]_vars

C13_Witness ==
    /\ ev.op = "connectWallet" /\ ev.opened
    /\ ev.chain = "mvm"
    /\ ~present["mvm"] /\ ~isInstalled["mvm"]
    /\ present["evm"] /\ isConnected["evm"]

\* C14: the step in which a connect request is rejected (or a later call of
\* connectWallet throws) emits exactly the one notification "Connection
\* Failed", issues no further request (no retry), starts or drops no fetch,
\* delivers nothing, does not call onConnectChange, leaves isConnected,
\* address, allTokens and the pending fetches as they were, and ends the
\* connectWallet call.
C14_ConnectRejected ==
    [][ (ev'.op = "connectWallet" /\ ev'.answer = "throw") =>
          /\ ev'.toasts = <<"Connection Failed">>
          /\ ev'.requests = <<>>
          /\ ev'.started = <<>> /\ ev'.dropped = 0
          /\ ev'.delivered = <<>>
          /\ ev'.onConnectChange = 0
          /\ ~ev'.opened
          /\ isConnected' = isConnected /\ address' = address
          /\ allTokens' = allTokens
          /\ fetches' = fetches /\ fetchingBalances' = fetchingBalances
          /\ BagCardinality(conns'[ev'.chain]) = BagCardinality(conns[ev'.chain]) - 1 ]_vars

C14_Witness ==
    /\ ev.op = "connectWallet" /\ ev.answer = "throw" /\ ev.at = "eth_requestAccounts"
    /\ ~isConnected["evm"] /\ address["evm"] = Null
    /\ conns["evm"] = EmptyBag
    /\ allTokens = <<>>

\* C15: the step of the mount-time connection check that finds the
\* extension connected with an account makes the connector connected with
\* that account as address and starts exactly one balance fetch, for that
\* account (none is dropped); it is no user or extension stimulus.  A
\* mounted connector whose extension is absent is not installed, not
\* connected, has no address, no connection check, no pending call and no
\* fetch, and the only steps it ever takes are its mount effect and clicks
\* on Connect (no listener runs).
C15_MountCheck ==
    /\ (ev.op = "checkConnectionStatus" /\ ev.answer \in Accounts) =>
         /\ isConnected[ev.chain]
         /\ address[ev.chain] = ev.answer
         /\ ev.started = <<ev.answer>>
         /\ ev.dropped = 0
         /\ \E f \in BagToSet(fetches[ev.chain]) : f.acct = ev.answer
         /\ fetchingBalances[ev.chain]
         /\ ev.onConnectChange = 1
    /\ \A c \in Chains :
         (mounted[c] /\ ~present[c]) =>
           /\ ~isInstalled[c] /\ ~isConnected[c] /\ address[c] = Null
           /\ chk[c] = "none" /\ conns[c] = EmptyBag /\ discs[c] = 0
           /\ fetches[c] = EmptyBag
           /\ ev.chain = c => ev.op \in {"useEffect", "connectWallet"} /\ ev.requests = <<>>

C15_Witness ==
    /\ ev.op = "checkConnectionStatus" /\ ev.chain = "mvm" /\ ev.answer \in Accounts
    /\ events = 0
    /\ isConnected["mvm"]
    /\ BagCardinality(fetches["mvm"]) = 1

\* C16 (as specified): after a step in which a connector delivered a token
\* list, the entries of allTokens that connector delivered are exactly that
\* list: nothing of its earlier deliveries is left.
C16_DeliveryReplacesChain ==
    ev.delivered # <<>> => TokensBy(ev.chain) = ev.delivered[Len(ev.delivered)]

\* C17 (as specified): no two entries of allTokens have the same chain tag
\* and the same id.
C17_UniqueChainId ==
    \A i, j \in 1..Len(allTokens) :
        (allTokens[i].chain = allTokens[j].chain /\ allTokens[i].id = allTokens[j].id)
            => i = j

IsSuffix(a, b) == Len(a) <= Len(b) /\ SubSeq(b, Len(b) - Len(a) + 1, Len(b)) = a

\* C18: a disconnect leaves the connector's pending fetches pending (none is
\* cancelled), and the step that ends a fetch delivers its one token list,
\* which becomes the end of allTokens, whether or not the connector is
\* still connected, and does not change isConnected or address; so a
\* connector can be not connected while allTokens holds tokens it delivered.
C18_FetchNotCancelled ==
    [][ /\ (\E i \in 1..Len(ev'.toasts) : ev'.toasts[i] = "Disconnected") =>
             fetches' = fetches /\ fetchingBalances' = fetchingBalances
        /\ ( /\ ev'.op = "fetchTokenBalances"
             /\ BagCardinality(fetches'[ev'.chain]) < BagCardinality(fetches[ev'.chain]) ) =>
             /\ Len(ev'.delivered) = 1
             /\ IsSuffix(ev'.delivered[1], allTokens')
             /\ isConnected' = isConnected /\ address' = address ]_vars

C18_Witness ==
    /\ ev.op = "fetchTokenBalances" /\ ev.chain = "svm" /\ ev.answer # "throw"
    /\ ev.delivered # <<>>
    /\ ~isConnected["svm"] /\ address["svm"] = Null
    /\ TokensBy("svm") = <<SVM_solToken(1500000000)>>

\* C19 (as specified): an account-change event for an account that arrives
\* while a fetch for another account is pending starts no fetch: its
\* fetchTokenBalances call returns at the guard.
C19_SecondFetchDropped ==
    ( /\ ev.op \in {"handleAccountsChanged", "handleAccountChanged", "onAccountChange"}
      /\ ev.answer \in ChangedAccounts
      /\ \E f \in BagToSet(fetches[ev.chain]) : f.acct # ev.answer ) =>
      /\ ev.started = <<>>
      /\ ev.dropped = 1

\* The transfer routine of a chain tag.
RoutineOf(chain) ==
    CASE chain = "evm" -> "transferERC20"
      [] chain = "svm" -> "transferSOL"
      [] chain = "mvm" -> "transferMVMToken"

\* The calls each routine makes.
CallsOf(routine) ==
    CASE routine = "transferERC20" ->
           {"wallet_switchEthereumChain", "wallet_addEthereumChain",
            "provider.getSigner", "tokenContract.decimals",
            "tokenContract.transfer", "signer.sendTransaction", "tx.wait"}
      [] routine = "transferSOL" ->
           {"solana.connect", "connection.getBalance", "SystemProgram.transfer",
            "connection.getLatestBlockhash", "solana.signTransaction",
            "connection.sendRawTransaction", "connection.confirmTransaction"}
      [] routine = "transferMVMToken" ->
           {"petra.isConnected", "petra.connect", "petra.account",
            "client.getLedgerInfo", "petra.signAndSubmitTransaction",
            "client.waitForTransaction"}

\* C20: a transferTokens call for a token tagged "evm", "svm" or "mvm" has
\* invoked exactly one routine, the one of that tag, and every call made is
\* a call of that routine; what it submits goes to the request's
\* destination address with the request's amount (as the string for EVM,
\* scaled to lamports for SVM and to base units for MVM); the call returns
\* true exactly with the routine's success notification and false exactly
\* with one of the routine's failure notifications.
C20_DispatchByChain ==
    (transfer.pc # "idle" /\ transfer.token.chain \in {"evm", "svm", "mvm"}) =>
      /\ transfer.routines = <<RoutineOf(transfer.token.chain)>>
      /\ \A i \in 1..Len(transfer.calls) :
           transfer.calls[i] \in CallsOf(RoutineOf(transfer.token.chain))
      /\ \A i \in 1..Len(transfer.sent) :
           /\ transfer.sent[i].to = transfer.toAddress
           /\ transfer.sent[i].amount =
                CASE transfer.token.chain = "evm" -> Join(transfer.amount)
                  [] transfer.token.chain = "svm" ->
                       NumberToStr(Times(parseFloat(transfer.amount), LAMPORTS_PER_SOL))
                  [] transfer.token.chain = "mvm" ->
                       amountInSmallestUnit(transfer.amount, transfer.token.decimals)
      /\ transfer.returned = "true" <=>
           (transfer.toasts # <<>> /\ transfer.toasts[1].title = "Transfer Successful")
      /\ transfer.returned = "false" <=>
           (transfer.toasts # <<>> /\ transfer.toasts[1].title \in FailureTitles)

C20_Witness ==
    /\ transfer.token = SVM_solToken(1500000000)
    /\ transfer.routines = <<"transferSOL">>
    /\ transfer.amount = <<"0", ".", "5">>
    /\ transfer.sent = <<[kind |-> "sol", to |-> transfer.toAddress, asset |-> "SOL",
                          amount |-> "500000000"]>>
    /\ transfer.returned = "true"

----------------------------------------------------------------------------
\* Properties of the connectors: extension events

AccountChangeOps == {"handleAccountsChanged", "handleAccountChanged", "onAccountChange"}

\* C21: right after an account-change listener ran with an account, the
\* connector's address is that account and the step started exactly one
\* balance fetch, for that account, which is pending (none was dropped at
\* the guard), without notification or delivery; right after it ran without
\* an account, the disconnect handling was done (not connected, no address,
\* the empty list delivered, onConnectChange called, "Disconnected"
\* notified) and the step started no fetch and issued no request.
C21_AccountChange ==
    ev.op \in AccountChangeOps =>
      IF ev.answer # Null
      THEN /\ address[ev.chain] = ev.answer
           /\ ev.started = <<ev.answer>>
           /\ ev.dropped = 0
           /\ \E f \in BagToSet(fetches[ev.chain]) :
                 f.acct = ev.answer /\ f.stage = FirstAwait(ev.chain)
           /\ fetchingBalances[ev.chain]
           /\ ev.toasts = <<>> /\ ev.delivered = <<>>
      ELSE /\ ~isConnected[ev.chain]
           /\ address[ev.chain] = Null
           /\ ev.delivered = << <<>> >>
           /\ ev.onConnectChange = 1
           /\ ev.toasts = <<"Disconnected">>
           /\ ev.started = <<>> /\ ev.dropped = 0 /\ ev.requests = <<>>

C21_Witness ==
    /\ ev.op = "handleAccountChanged" /\ ev.answer \in ChangedAccounts
    /\ isConnected["svm"]
    /\ address["svm"] = ev.answer
    /\ \E f \in BagToSet(fetches["svm"]) : f.acct = ev.answer

\* C22 (as specified): right after a chain / network change listener ran in
\* a connector that is connected with an address, a balance fetch for that
\* address was started by the step, unless one was in flight.
C22_NetworkChangeRefetches ==
    ( /\ ev.op \in {"handleChainChanged", "onNetworkChange"}
      /\ isConnected[ev.chain] /\ address[ev.chain] # Null ) =>
      \/ ev.started = <<address[ev.chain]>>
      \/ ev.started = <<>> /\ fetches[ev.chain] # EmptyBag

----------------------------------------------------------------------------
\* Properties of the transfer routines

NetworkRequests == {"wallet_switchEthereumChain", "wallet_addEthereumChain"}

\* C23: in a transferERC20 call the signer is obtained exactly when the
\* network requests ended with a successful switch: the first switch
\* succeeded, or it was rejected with the unrecognized-chain code, the add
\* request that followed succeeded and the switch request after it succeeded
\* too; every call past the network requests and every submitted
\* transaction comes after that.  A first switch rejected with the
\* unrecognized-chain code is followed by the add request and, when that
\* succeeded, by the second switch request.  When the first switch was
\* rejected otherwise, or the add or the second switch was rejected, the
\* call has returned false with the one notification "Network Error",
\* having made only network requests and submitted nothing.
C23_NetworkBeforeTransfer ==
    transfer.routines = <<"transferERC20">> =>
      /\ Called("provider.getSigner") <=>
           transfer.network \in {<<"ok">>, <<"4902", "ok", "ok">>}
      /\ \A i \in 1..Len(transfer.calls) :
           transfer.calls[i] \notin NetworkRequests =>
             /\ i > Len(transfer.network)
             /\ transfer.network[Len(transfer.network)] = "ok"
             /\ Len(transfer.network) \in {1, 3}
      /\ transfer.sent # <<>> => Called("provider.getSigner")
      /\ transfer.network = <<"4902">> =>
           /\ transfer.pc = "addEthereumChain"
           /\ transfer.calls = <<"wallet_switchEthereumChain", "wallet_addEthereumChain">>
      /\ transfer.network = <<"4902", "ok">> =>
           /\ transfer.pc = "switchEthereumChain2"
           /\ transfer.calls = <<"wallet_switchEthereumChain", "wallet_addEthereumChain",
                                 "wallet_switchEthereumChain">>
      /\ transfer.network \in {<<"throw">>, <<"4902", "throw">>, <<"4902", "ok", "throw">>} =>
           /\ transfer.pc = "returned"
           /\ transfer.returned = "false"
           /\ Len(transfer.toasts) = 1
           /\ transfer.toasts[1].title = "Network Error"
           /\ Len(transfer.calls) = Len(transfer.network)
           /\ \A i \in 1..Len(transfer.calls) : transfer.calls[i] \in NetworkRequests
           /\ transfer.sent = <<>>
      /\ (transfer.toasts # <<>> /\ transfer.toasts[1].title = "Network Error") =>
           transfer.network[Len(transfer.network)] = "throw"

C23_Witness ==
    /\ transfer.routines = <<"transferERC20">>
    /\ transfer.token = Erc20Token
    /\ transfer.network = <<"4902", "ok", "throw">>
    /\ transfer.returned = "false"
    /\ transfer.toasts = <<Toast("Network Error", "Could not switch to Celo Alfajores network")>>

ContractCalls == {"tokenContract.decimals", "tokenContract.transfer"}

\* C24: transferTokens hands transferERC20 the token's address, or "native"
\* when that address is empty.  A transferERC20 call for a token address
\* that is not "native" makes no native value transfer, and a call for
\* "native" no contract call; a call that returned true has submitted
\* exactly one transaction: for a token address that is not "native", the
\* ERC-20 transfer of that contract, after decimals() and transfer(); for
\* "native", the value transfer of sendTransaction().
C24_OneSendMode ==
    transfer.routines = <<"transferERC20">> =>
      /\ transfer.tokenAddress =
           (IF transfer.token.address = "" THEN "native" ELSE transfer.token.address)
      /\ IF transfer.tokenAddress # "" /\ transfer.tokenAddress # "native"
         THEN /\ ~Called("signer.sendTransaction")
              /\ \A i \in 1..Len(transfer.sent) : transfer.sent[i].kind = "erc20"
              /\ transfer.returned = "true" =>
                   /\ transfer.sent = <<[kind |-> "erc20", to |-> transfer.toAddress,
                                         asset |-> transfer.tokenAddress,
                                         amount |-> Join(transfer.amount)]>>
                   /\ \A c \in ContractCalls :
                        Cardinality({i \in 1..Len(transfer.calls) : transfer.calls[i] = c}) = 1
         ELSE /\ \A c \in ContractCalls : ~Called(c)
              /\ \A i \in 1..Len(transfer.sent) : transfer.sent[i].kind = "native"
              /\ transfer.returned = "true" =>
                   /\ Len(transfer.sent) = 1
                   /\ Cardinality({i \in 1..Len(transfer.calls) :
                                     transfer.calls[i] = "signer.sendTransaction"}) = 1

C24_Witness ==
    /\ transfer.routines = <<"transferERC20">>
    /\ transfer.token = Erc20Token
    /\ transfer.returned = "true"
    /\ Len(transfer.sent) = 1 /\ transfer.sent[1].kind = "erc20"
    /\ ~Called("signer.sendTransaction")

\* The token addresses of the model that are type tags.
TypeTags == {AptosCoin, UsdCoin}

\* C25: the payload transferMVMToken has submitted names the function
\* 0x1::coin::transfer, has as type argument the token's address when that
\* address is a type tag and 0x1::aptos_coin::AptosCoin when it is empty or
\* no type tag, and has as arguments the destination address and the
\* amount times 10^decimals, written as an integer.
C25_MVMPayload ==
    transfer.routines = <<"transferMVMToken">> =>
      \A i \in 1..Len(transfer.sent) :
        /\ transfer.sent[i].kind = "0x1::coin::transfer"
        /\ transfer.sent[i].asset =
             (IF transfer.token.address \in TypeTags THEN transfer.token.address
              ELSE "0x1::aptos_coin::AptosCoin")
        /\ transfer.sent[i].to = transfer.toAddress
        /\ transfer.sent[i].amount =
             NumberToStr(Times(parseFloat(transfer.amount), Pow10(transfer.token.decimals)))

C25_Witness ==
    /\ transfer.routines = <<"transferMVMToken">>
    /\ transfer.token.address = UsdCoin
    /\ transfer.amount = <<"1", ".", "5">>
    /\ transfer.sent = <<[kind |-> "0x1::coin::transfer", to |-> transfer.toAddress,
                          asset |-> UsdCoin, amount |-> "1500000"]>>

----------------------------------------------------------------------------
\* Properties of the aggregation view: chain tags

\* C26 (as specified): every entry of allTokens has a chain tag among "evm",
\* "svm", "mvm", and the tag is the chain of the connector that delivered it.
C26_ChainTags ==
    \A i \in 1..Len(allTokens) :
        /\ allTokens[i].chain \in Chains
        /\ allTokens[i].chain = deliveredBy[i]

----------------------------------------------------------------------------
\* Properties of the connectors: independence

\* The first await of connectWallet.
ConnectRequests == {"eth_requestAccounts", "connect"}

\* C27: a step of one connector (mount effect, connection check, connect,
\* disconnect, account or network change, start or end of a fetch) leaves
\* isConnected, address, isInstalled, the in-flight flag and the pending
\* calls and fetches of the other two connectors as they were.  The
\* in-flight flag a Connect click captures is the connector's own, and a
\* fetchTokenBalances call returns at the guard only in a connectWallet call
\* that captured its own connector's flag set: the fetches in flight in
\* other connectors never make a connector drop a fetch.
C27_AdaptersIndependent ==
    [][ \A c \in Chains :
          ev'.chain = c =>
            /\ \A d \in Chains \ {c} :
                 /\ isConnected'[d] = isConnected[d]
                 /\ address'[d] = address[d]
                 /\ fetchingBalances'[d] = fetchingBalances[d]
                 /\ isInstalled'[d] = isInstalled[d]
                 /\ mounted'[d] = mounted[d]
                 /\ fetches'[d] = fetches[d]
                 /\ conns'[d] = conns[d]
                 /\ discs'[d] = discs[d]
                 /\ chk'[d] = chk[d]
            /\ \A call \in BagToSet(conns'[c]) \ BagToSet(conns[c]) :
                 call.stage \in ConnectRequests =>
                   call.fetchingBalances = fetchingBalances[c]
            /\ ev'.dropped > 0 =>
                 /\ ev'.op = "connectWallet"
                 /\ \E call \in BagToSet(conns[c]) : call.fetchingBalances ]_vars

\* The SVM connector starts its fetch while a fetch of another connector is
\* in flight.
C27_Witness ==
    /\ ev.op = "connectWallet" /\ ev.chain = "svm"
    /\ ev.started = <<address["svm"]>> /\ ev.dropped = 0
    /\ fetchingBalances["svm"]
    /\ \E d \in Chains \ {"svm"} : fetchingBalances[d] /\ fetches[d] # EmptyBag

----------------------------------------------------------------------------
\* Properties of the transfer dialog

\* C28: a click on the dialog's Send button calls transferTokens exactly
\* when a token is selected and the address and the amount are not empty,
\* with that token, address and amount; otherwise the click emits the one
\* notification "Error", calls no routine (the transfer record is as it
\* was) and leaves the dialog open.  When transferTokens has returned true
\* the handler closes the dialog (after the "Success" notification); when
\* it has returned false the handler notifies nothing and leaves the dialog
\* open.  No step of the handler changes the selected token, the address
\* or the amount.
C28_SubmitTransfer ==
    [][ /\ (dialog' # dialog /\ dialog'.op = "handleSubmitTransfer") =>
             /\ dialog.isTransferDialogOpen /\ dialog'.isTransferDialogOpen
             /\ dialog'.selectedToken = dialog.selectedToken
             /\ dialog'.toAddress = dialog.toAddress
             /\ dialog'.amount = dialog.amount
             /\ IF /\ dialog.selectedToken # NoDialog.selectedToken
                   /\ dialog.toAddress # ""
                   /\ dialog.amount # <<>>
                THEN /\ dialog'.pc = "awaiting"
                     /\ dialog'.toasts = <<>>
                     /\ transfer'.token = dialog.selectedToken
                     /\ transfer'.toAddress = dialog.toAddress
                     /\ transfer'.amount = dialog.amount
                     /\ transfer'.pc # "idle"
                ELSE /\ dialog'.pc = "idle"
                     /\ Len(dialog'.toasts) = 1
                     /\ dialog'.toasts[1].title = "Error"
                     /\ transfer' = transfer
        /\ (dialog' # dialog /\ dialog'.op = "handleSubmitTransfer_resume") =>
             /\ transfer.pc = "returned" /\ transfer' = transfer
             /\ dialog'.selectedToken = dialog.selectedToken
             /\ dialog'.toAddress = dialog.toAddress
             /\ dialog'.amount = dialog.amount
             /\ IF transfer.returned = "true"
                THEN /\ ~dialog'.isTransferDialogOpen
                     /\ Len(dialog'.toasts) = 1
                     /\ dialog'.toasts[1].title = "Success"
                ELSE /\ transfer.returned = "false"
                     /\ dialog'.isTransferDialogOpen = dialog.isTransferDialogOpen
                     /\ dialog'.toasts = <<>>
        /\ (transfer' # transfer /\ transfer.pc \in {"idle", "returned"}) =>
             dialog'.op = "handleSubmitTransfer" /\ dialog'.pc = "awaiting" ]_vars

\* transferTokens returned false and the dialog is still open with what the
\* user had entered.
C28_Witness ==
    /\ dialog.op = "handleSubmitTransfer_resume"
    /\ transfer.returned = "false"
    /\ dialog.isTransferDialogOpen
    /\ dialog.selectedToken = SVM_solToken(1500000000)
    /\ dialog.toAddress = transfer.toAddress
    /\ dialog.amount = <<"2", ".", "0">>
    /\ transfer.toasts[1].title = "Insufficient Balance"

----------------------------------------------------------------------------
\* Properties of EVM transfers: the network

\* The chain id of the network an RPC endpoint of the EVM fetcher serves.
EndpointChainId(url) ==
    IF url = "https://alfajores-forno.celo-testnet.org" THEN "0xaef3" ELSE "0x1"

\* C29 (as specified): a transaction transferERC20 has submitted for the
\* native token the EVM fetcher builds on chain id c went to the network of
\* the RPC endpoint the fetcher read that token's balance from.
C29_TransferOnFetchNetwork ==
    \A c \in ChainIds, b \in GweiBalances :
        ( /\ transfer.token = EVM_nativeToken(c, b)
          /\ transfer.routines = <<"transferERC20">>
          /\ transfer.sent # <<>> ) =>
          transfer.chainId = EndpointChainId(rpcUrl(c))

----------------------------------------------------------------------------
\* Properties of transfers of the error marker

\* The calls that ask a wallet extension to sign.
SigningCalls ==
    {"signer.sendTransaction", "tokenContract.transfer", "solana.signTransaction",
     "petra.signAndSubmitTransaction"}

\* C30 (as specified): a transferTokens call for an error-marker token (id
\* "error", symbol "ERR") makes no signing call, submits nothing, and has
\* returned false once it has returned.
C30_ErrorMarkerNeverSigns ==
    (transfer.token.id = "error" /\ transfer.token.symbol = "ERR") =>
      /\ \A i \in 1..Len(transfer.calls) : transfer.calls[i] \notin SigningCalls
      /\ transfer.sent = <<>>
      /\ transfer.pc = "returned" => transfer.returned = "false"

----------------------------------------------------------------------------
\* Properties of the connectors: connection state

\* C31 (as specified): a connector has an address exactly when it is
\* connected.
C31_AddressIffConnected ==
    \A c \in Chains : (address[c] # Null) <=> isConnected[c]

\* C32 (as specified): a step that starts a balance fetch is a step of a
\* connector that is connected when the step is done (the connect and the
\* connection check set isConnected in the step that starts their fetch).
C32_FetchOnlyWhenConnected ==
    ev.started # <<>> => isConnected[ev.chain]

----------------------------------------------------------------------------
\* Properties of the connectors: the in-flight flag

\* No connector has a fetch pending or its in-flight flag set.
Quiet == \A c \in Chains : fetches[c] = EmptyBag /\ ~fetchingBalances[c]

\* C33: when every awaited request of a fetch settles, a state with a pending
\* fetch or a set in-flight flag is followed by a state where no fetch is
\* pending and every flag is reset: each fetch that passed the guard reaches
\* its finally block, whether its requests resolve or reject.
C33_FlagReset == ~Quiet ~> Quiet

\* A fetch ended in its catch block and the flag is reset.
C33_Witness ==
    /\ ev.op = "fetchTokenBalances" /\ ev.answer = "throw" /\ ev.chain = "evm"
    /\ ev.at = "eth_chainId"
    /\ ~fetchingBalances["evm"]
    /\ fetches["evm"] = EmptyBag

----------------------------------------------------------------------------
\* Properties of the connectors: the end of a connect call

\* The step is the last one of a connectWallet call whose extension is
\* installed: the extension's answer was handled and no request follows
\* (Petra's connect() is followed by account()).
ConnectEnded ==
    /\ ev.op = "connectWallet"
    /\ ev.at # ""
    /\ ~(ev.chain = "mvm" /\ ev.at = "connect" /\ ev.answer = "ok")

\* C34: a connect call on an installed extension ends with exactly one
\* notification and the matching state: "Connected" with isConnected true, or
\* "Connection Failed" with isConnected false, also when the extension
\* answered without an account.
C34_ConnectNotifies ==
    ConnectEnded =>
        \/ ev.toasts = <<"Connected">> /\ isConnected[ev.chain]
        \/ ev.toasts = <<"Connection Failed">> /\ ~isConnected[ev.chain]

----------------------------------------------------------------------------
\* Properties of the connectors: the Disconnect button of Phantom and Petra

\* The step is the last one of a disconnectWallet call of connector c: the
\* extension's disconnect() resolved or rejected, or there was no extension
\* object to ask.
UserDisconnectEnded(c) ==
    ev.op = "disconnectWallet" /\ ev.chain = c /\ ev.requests = <<>>

\* The step ran the disconnect handling of connector c.
DisconnectHandled(c) == ev.chain = c /\ Toasted("Disconnected")

\* The connector has no address, is not connected, and no entry of
\* allTokens was delivered by it.
Cleared(c) ==
    /\ address[c] = Null
    /\ ~isConnected[c]
    /\ \A i \in 1..Len(allTokens) : deliveredBy[i] # c /\ allTokens[i].chain # c

\* C35: when a Disconnect click of the SVM or MVM connector has been
\* handled to its end, whether the extension's disconnect() resolved or
\* threw, the connector's address is null, isConnected is false and its
\* tokens are gone from the list; and a disconnect handling that runs right
\* after another one of the same connector changes nothing.
C35_DisconnectClears ==
    [][\A c \in {"svm", "mvm"} :
         /\ UserDisconnectEnded(c)' => Cleared(c)'
         /\ (DisconnectHandled(c) /\ DisconnectHandled(c)')
               => UNCHANGED <<address, isConnected, allTokens, deliveredBy>>]_vars

\* Phantom's disconnect() threw and the connector's state is cleared.
C35_Witness ==
    /\ UserDisconnectEnded("svm") /\ ev.answer = "throw"
    /\ Cleared("svm")

----------------------------------------------------------------------------
\* Properties of the transfer routines: the amount of a SOL transfer

\* transferSOL is the routine of the call.
InTransferSOL == \E i \in 1..Len(transfer.routines) : transfer.routines[i] = "transferSOL"

\* The amount text is not a strictly positive number.
NotPositive(amount) == parseFloat(amount).nan \/ parseFloat(amount).num <= 0

\* C36 (as specified): a transferSOL call whose amount is zero, negative or
\* not a number builds no transfer instruction, asks for no signature,
\* submits nothing, and has returned false once it has returned.
C36_PositiveAmountOnly ==
    (InTransferSOL /\ NotPositive(transfer.amount)) =>
        /\ \A i \in 1..Len(transfer.calls) :
              transfer.calls[i] \notin SigningCalls \cup {"SystemProgram.transfer"}
        /\ transfer.sent = <<>>
        /\ transfer.returned \in {"none", "false"}

====
